---- MODULE Spec2Model ----
(***************************************************************************)
(* The MST binary codec of flywave/go-mst (Properties codec and the        *)
(* versioned Mesh codec), modelled at the level of the bytes it writes and *)
(* reads.                                                                  *)
(*                                                                         *)
(* Representation.  A byte is a number in 0..255 and a stream is a         *)
(* sequence of bytes.  A fixed-width scalar that the codec only copies     *)
(* (float32, float64, uint64 hash and feature, int32 id, uint32 code,      *)
(* colour) is held as its little-endian bit pattern, a byte sequence of    *)
(* the scalar's width; a count or a tag the code computes with is a        *)
(* number.  A Go pointer is an option: Nil (<<>>) or Some(x) (<<x>>).      *)
(* A Go map is a function from keys (byte sequences) to values.            *)
(***************************************************************************)
EXTENDS Integers, Sequences, FiniteSets, TLC

VARIABLES
    mesh,      \* the *Mesh handed to MeshMarshal (an option; Nil in PropsSpec)
    properties, \* the *Properties handed to PropertiesMarshal (PropsSpec)
    stream,    \* the bytes written, then read
    result,    \* what the decoder returned
    tampered,  \* whether the stream was altered between writing and reading
    pc,        \* "init", "marshalled", "decoded"; in GltfSpec "build", "built",
               \* "failed", "encoded"
    meshes,    \* the []*Mesh handed to MstToGltf or MstToGltfWithOutline (GltfSpec)
    outline,   \* exportOutline: whether MstToGltfWithOutline was called
    doc,       \* the *gltf.Document under construction
    built,     \* how many meshes of the list BuildGltf has been called on
    blob,      \* what GetGltfBinary returned (an option)
    padCall,   \* a call of calcPadding: its arguments and its result (PadSpec)
    resorted,  \* the decoded nodes after ResortVtVn (an option; ResortSpec)
    failedDoc  \* the document as a BuildGltf call that returned an error left it
               \* (an option; GltfSpec)

\* The variables of the codec specifications and those of GltfSpec.
cvars == <<mesh, properties, stream, result, tampered>>
gvars == <<meshes, outline, doc, built, blob, padCall, resorted, failedDoc>>

vars == <<mesh, properties, stream, result, tampered, pc, meshes, outline, doc, built, blob,
          padCall, resorted, failedDoc>>

(***************************************************************************)
(* Options, bytes, little-endian scalars                                   *)
(***************************************************************************)
Nil == <<>>
Some(x) == <<x>>

\* The glTF builder has not been called (the codec specifications).
GltfIdle ==
    /\ meshes = <<>>
    /\ outline = FALSE
    /\ doc = Nil
    /\ built = 0
    /\ blob = Nil
    /\ padCall = Nil
    /\ resorted = Nil
    /\ failedDoc = Nil

Max(a, b) == IF a > b THEN a ELSE b

Zero(n) == [i \in 1..n |-> 0]

\* encoding/binary little-endian uint32, as written by writeLittleUint32 and by
\* writeLittleByte on a uint32 (n < 2^31 in every use of the model).
LE32(n) ==
    << n % 256, (n \div 256) % 256, (n \div 65536) % 256, (n \div 16777216) % 256 >>

\* The number a 4-byte little-endian field denotes.  TLC's integers are 32-bit
\* signed: a field of 2^31 or more is clamped to 2^31-1.  The code compares such
\* a number only with thresholds far below (0, 1, 100, 1000, 100000, list
\* lengths), so every comparison keeps its outcome.
Uint32Of(b) ==
    IF b[4] >= 128 THEN 2147483647
    ELSE b[1] + 256 * b[2] + 65536 * b[3] + 16777216 * b[4]

LE16(n) == << n % 256, (n \div 256) % 256 >>
Uint16Of(b) == b[1] + 256 * b[2]

\* readLittleByte on a reader holding s with p bytes consumed, asking for n
\* bytes: binary.Read reads with io.ReadFull, so a short stream is consumed to
\* its end, an error is returned and the destination keeps its old value.
\* p = Exhausted is the reader of a decode that has stopped (see CountCap).
Exhausted == 0 - 1

readLittleByte(s, p, n) ==
    IF p = Exhausted THEN [ok |-> FALSE, b |-> <<>>, p |-> p]
    ELSE IF p + n <= Len(s) THEN [ok |-> TRUE, b |-> SubSeq(s, p + 1, p + n), p |-> p + n]
    ELSE [ok |-> FALSE, b |-> <<>>, p |-> Len(s)]

\* The value a destination holds after readLittleByte into it.
Dest(r, old) == IF r.ok THEN r.b ELSE old

\* `x := e` followed by the rest of the function body, which names the value
\* x: With([x \in {e} |-> rest]).
With(f) == f[CHOOSE x \in DOMAIN f : TRUE]

(***************************************************************************)
(* Properties codec (properties.go)                                        *)
(***************************************************************************)
PROP_TYPE_STRING == 0
PROP_TYPE_INT == 1
PROP_TYPE_FLOAT == 2
PROP_TYPE_BOOL == 3
PROP_TYPE_ARRAY == 4
PROP_TYPE_MAP == 5

MaxPropsCount == 1000
MaxKeyLen == 100
MaxStrLen == 100000
MaxArrLen == 100000

\* A key-length check that lets every length through.
KeyLenExceeds_Unchecked(keyLen) == FALSE

\* `if keyLen > 100 { return nil }`
KeyLenExceeds(keyLen) == keyLen > MaxKeyLen

PropsValue(t, v) == [Type |-> t, Value |-> v]
InvalidValue == [Type |-> 0 - 1, Value |-> <<>>]

EmptyProps == [k \in {} |-> InvalidValue]

\* `for key, value := range *props`: Go iterates a map in an unspecified order.
\* ord lists the key universe in the order of this run; a map is walked in it.
KeysInOrder(p, ord) == SelectSeq(ord, LAMBDA k : k \in DOMAIN p)

RECURSIVE marshalPropsValue(_, _)
RECURSIVE marshalArrayItems(_, _)
RECURSIVE PropertiesMarshal(_, _)
RECURSIVE marshalEntries(_, _, _)

\* Byte 1 for true, 0 for false.
BoolByte(b) == IF b THEN <<1>> ELSE <<0>>

\* Array items written without their type tags.
marshalArrayItems_NoTag(arr, ord) ==
    IF arr = <<>> THEN <<>>
    ELSE marshalPropsValue(Head(arr), ord) \o marshalArrayItems(Tail(arr), ord)

marshalArrayItems(arr, ord) ==
    IF arr = <<>> THEN <<>>
    ELSE LE32(Head(arr).Type) \o marshalPropsValue(Head(arr), ord)
             \o marshalArrayItems(Tail(arr), ord)

\* The payload of one value.  Both the closure inside PropertiesMarshal and the
\* package-level function of the same name (which the closure calls for array
\* items) write these bytes.
marshalPropsValue(value, ord) ==
    CASE value.Type = PROP_TYPE_STRING -> LE32(Len(value.Value)) \o value.Value
      [] value.Type = PROP_TYPE_INT -> value.Value
      [] value.Type = PROP_TYPE_FLOAT -> value.Value
      [] value.Type = PROP_TYPE_BOOL -> BoolByte(value.Value)
      [] value.Type = PROP_TYPE_ARRAY ->
            LE32(Len(value.Value)) \o marshalArrayItems(value.Value, ord)
      [] value.Type = PROP_TYPE_MAP -> PropertiesMarshal(Some(value.Value), ord)
      [] OTHER -> <<>>

marshalEntries(p, ks, ord) ==
    IF ks = <<>> THEN <<>>
    ELSE LET key == Head(ks)
             value == p[key]
         IN  LE32(Len(key)) \o key \o LE32(value.Type)
                 \o marshalPropsValue(value, ord)
                 \o marshalEntries(p, Tail(ks), ord)

PropertiesMarshal(pr, ord) ==
    IF pr = Nil THEN LE32(0)
    ELSE LET p == pr[1]
             ks == KeysInOrder(p, ord)
         IN  LE32(Cardinality(DOMAIN p)) \o marshalEntries(p, ks, ord)

\* What a Properties decode met on its way: the largest declared entry count,
\* key length and string/array length, whether a type tag outside 0..5 was read,
\* and whether a read hit the end of the stream.  Observation only.
Obs0 == [cnt |-> 0, key |-> 0, len |-> 0, tag |-> FALSE, eof |-> FALSE]

SawEof(o) == [o EXCEPT !.eof = TRUE]

PropsFail(p, o) == [ok |-> FALSE, v |-> Nil, p |-> p, o |-> o]
ValueFail(p, o) == [v |-> InvalidValue, p |-> p, o |-> o]

RECURSIVE unmarshalPropsValue(_, _, _, _)
RECURSIVE unmarshalArrayItems(_, _, _, _, _)
RECURSIVE PropertiesUnMarshal(_, _, _)
RECURSIVE unmarshalEntries(_, _, _, _, _)

\* The `for i < arrLen` loop of unmarshalPropsValue's array case.
unmarshalArrayItems(s, p, n, acc, o) ==
    IF n = 0 THEN [v |-> PropsValue(PROP_TYPE_ARRAY, acc), p |-> p, o |-> o]
    ELSE LET r == readLittleByte(s, p, 4) IN
         IF ~r.ok THEN ValueFail(r.p, SawEof(o))
         ELSE LET itemType == Uint32Of(r.b)
                  item == unmarshalPropsValue(s, r.p, itemType, o)
              IN  IF item.v.Type = 0 - 1 THEN ValueFail(item.p, item.o)
                  ELSE IF item.v.Type # itemType THEN ValueFail(item.p, item.o)
                  ELSE unmarshalArrayItems(s, item.p, n - 1, Append(acc, item.v), item.o)

unmarshalPropsValue(s, p, propType, o) ==
    CASE propType = PROP_TYPE_STRING ->
            LET r == readLittleByte(s, p, 4) IN
            IF ~r.ok THEN ValueFail(r.p, SawEof(o))
            ELSE LET strLen == Uint32Of(r.b)
                     o1 == [o EXCEPT !.len = Max(@, strLen)]
                 IN  IF strLen > MaxStrLen THEN ValueFail(r.p, o1)
                     ELSE LET d == readLittleByte(s, r.p, strLen) IN
                          IF ~d.ok THEN ValueFail(d.p, SawEof(o1))
                          ELSE [v |-> PropsValue(propType, d.b), p |-> d.p, o |-> o1]
      [] propType = PROP_TYPE_INT ->
            LET r == readLittleByte(s, p, 8) IN
            IF ~r.ok THEN ValueFail(r.p, SawEof(o))
            ELSE [v |-> PropsValue(propType, r.b), p |-> r.p, o |-> o]
      [] propType = PROP_TYPE_FLOAT ->
            LET r == readLittleByte(s, p, 8) IN
            IF ~r.ok THEN ValueFail(r.p, SawEof(o))
            ELSE [v |-> PropsValue(propType, r.b), p |-> r.p, o |-> o]
      [] propType = PROP_TYPE_BOOL ->
            LET r == readLittleByte(s, p, 1) IN
            IF ~r.ok THEN ValueFail(r.p, SawEof(o))
            ELSE [v |-> PropsValue(propType, r.b[1] = 1), p |-> r.p, o |-> o]
      [] propType = PROP_TYPE_ARRAY ->
            LET r == readLittleByte(s, p, 4) IN
            IF ~r.ok THEN ValueFail(r.p, SawEof(o))
            ELSE LET arrLen == Uint32Of(r.b)
                     o1 == [o EXCEPT !.len = Max(@, arrLen)]
                 IN  IF arrLen > MaxArrLen THEN ValueFail(r.p, o1)
                     ELSE unmarshalArrayItems(s, r.p, arrLen, <<>>, o1)
      [] propType = PROP_TYPE_MAP ->
            LET sub == PropertiesUnMarshal(s, p, o) IN
            IF sub.v = Nil THEN ValueFail(sub.p, sub.o)
            ELSE [v |-> PropsValue(propType, sub.v[1]), p |-> sub.p, o |-> sub.o]
      [] OTHER -> ValueFail(p, [o EXCEPT !.tag = TRUE])

\* The `for i < size` loop of PropertiesUnMarshal; acc is the map filled so far.
unmarshalEntries(s, p, n, acc, o) ==
    IF n = 0 THEN [ok |-> TRUE, v |-> Some(acc), p |-> p, o |-> o]
    ELSE LET kl == readLittleByte(s, p, 4) IN
         IF ~kl.ok THEN PropsFail(kl.p, SawEof(o))
         ELSE LET keyLen == Uint32Of(kl.b)
                  o1 == [o EXCEPT !.key = Max(@, keyLen)]
              IN  IF KeyLenExceeds(keyLen) THEN PropsFail(kl.p, o1)
                  ELSE LET kb == readLittleByte(s, kl.p, keyLen) IN
                       IF ~kb.ok THEN PropsFail(kb.p, SawEof(o1))
                       ELSE LET ty == readLittleByte(s, kb.p, 4) IN
                            IF ~ty.ok THEN PropsFail(ty.p, SawEof(o1))
                            ELSE LET propType == Uint32Of(ty.b)
                                     value == unmarshalPropsValue(s, ty.p, propType, o1)
                                 IN  IF value.v.Type = 0 - 1 THEN PropsFail(value.p, value.o)
                                     ELSE IF value.v.Type # propType THEN PropsFail(value.p, value.o)
                                     ELSE unmarshalEntries(s, value.p, n - 1,
                                              [k \in (DOMAIN acc) \cup {kb.b} |->
                                                  IF k = kb.b THEN value.v ELSE acc[k]],
                                              value.o)

\* Returns [ok, v, p, o]: v is the *Properties returned (Nil on failure), p the
\* reader's position afterwards.
PropertiesUnMarshal(s, p, o) ==
    LET r == readLittleByte(s, p, 4) IN
    IF ~r.ok THEN PropsFail(r.p, SawEof(o))
    ELSE LET size == Uint32Of(r.b)
             o1 == [o EXCEPT !.cnt = Max(@, size)]
         IN  IF size > MaxPropsCount THEN PropsFail(r.p, o1)
             ELSE unmarshalEntries(s, r.p, size, EmptyProps, o1)

(***************************************************************************)
(* Mesh codec: versions, readers                                           *)
(***************************************************************************)
V1 == 1
V2 == 2
V3 == 3
V4 == 4
V5 == 5

MESH_TRIANGLE_MATERIAL_TYPE_COLOR == 0
MESH_TRIANGLE_MATERIAL_TYPE_TEXTURE == 1
MESH_TRIANGLE_MATERIAL_TYPE_PBR == 2
MESH_TRIANGLE_MATERIAL_TYPE_LAMBERT == 3
MESH_TRIANGLE_MATERIAL_TYPE_PHONG == 4

\* The largest declared count or byte length the model's Mesh decoder follows.
\* The code allocates and loops over whatever a count field declares (up to
\* 2^32-1 elements); a count above CountCap ends the modelled decode in the
\* state Exhausted, which stands for every outcome of such an allocation.
CountCap == 8

\* A declared count as the loops use it: the count read, or the old value of
\* the variable when the read failed.
CountOf(r, old) == IF r.ok THEN Uint32Of(r.b) ELSE old

\* rd.Read(buf) with len(buf) = n on an in-memory reader: up to n bytes, no
\* error looked at; the buffer's tail stays zero.
rdRead(s, p, n) ==
    IF p = Exhausted THEN [b |-> Zero(n), p |-> p]
    ELSE IF p + n <= Len(s) THEN [b |-> SubSeq(s, p + 1, p + n), p |-> p + n]
    ELSE [b |-> SubSeq(s, p + 1, Len(s)) \o Zero(n - (Len(s) - p)), p |-> Len(s)]

\* Successive readLittleByte calls into zero-initialised fields of the widths ws.
RECURSIVE ReadFields(_, _, _, _)
ReadFields(s, p, ws, acc) ==
    IF ws = <<>> THEN [f |-> acc, p |-> p]
    ELSE With([r \in {readLittleByte(s, p, Head(ws))} |->
             ReadFields(s, r.p, Tail(ws), Append(acc, Dest(r, Zero(Head(ws)))))])

RECURSIVE Flatten(_)
Flatten(ss) == IF ss = <<>> THEN <<>> ELSE Head(ss) \o Flatten(Tail(ss))

(***************************************************************************)
(* Materials and textures                                                  *)
(***************************************************************************)
BaseMaterialMarshal(mtl) == mtl.Color \o mtl.Transparency

BaseMaterialUnMarshal(s, p) ==
    With([r \in {ReadFields(s, p, <<3, 4>>, <<>>)} |->
        [v |-> [kind |-> "Base", Color |-> r.f[1], Transparency |-> r.f[2]], p |-> r.p]])

TextureMarshal(tex) ==
    tex.Id \o LE32(Len(tex.Name)) \o tex.Name \o tex.Size \o tex.Format \o tex.Type
        \o tex.Compressed \o LE32(Len(tex.Data)) \o tex.Data \o BoolByte(tex.Repeated)

ZeroTexture ==
    [Id |-> Zero(4), Name |-> <<>>, Size |-> Zero(16), Format |-> Zero(2),
     Type |-> Zero(2), Compressed |-> Zero(2), Data |-> <<>>, Repeated |-> FALSE]

TextureUnMarshal(s, p) ==
    With([id \in {readLittleByte(s, p, 4)} |->
    With([name_size \in {readLittleByte(s, id.p, 4)} |->
    IF CountOf(name_size, 0) > CountCap THEN [v |-> ZeroTexture, p |-> Exhausted]
    ELSE
    With([nm \in {rdRead(s, name_size.p, CountOf(name_size, 0))} |->
    With([f \in {ReadFields(s, nm.p, <<16, 2, 2, 2>>, <<>>)} |->
    With([tex_size \in {readLittleByte(s, f.p, 4)} |->
    IF CountOf(tex_size, 0) > CountCap THEN [v |-> ZeroTexture, p |-> Exhausted]
    ELSE
    With([data \in {readLittleByte(s, tex_size.p, CountOf(tex_size, 0))} |->
    With([rep \in {readLittleByte(s, data.p, 1)} |->
        [v |-> [Id |-> Dest(id, Zero(4)), Name |-> nm.b, Size |-> f.f[1],
                Format |-> f.f[2], Type |-> f.f[3], Compressed |-> f.f[4],
                Data |-> Dest(data, Zero(CountOf(tex_size, 0))),
                Repeated |-> (rep.ok /\ rep.b[1] # 0)],
         p |-> rep.p]])])])])])])])

\* `if tex != nil { write uint16(1); TextureMarshal } else { write uint16(0) }`
OptTextureMarshal(tex) ==
    IF tex # Nil THEN LE16(1) \o TextureMarshal(tex[1]) ELSE LE16(0)

TextureMaterialMarshal(mtl) ==
    BaseMaterialMarshal(mtl) \o OptTextureMarshal(mtl.Texture) \o OptTextureMarshal(mtl.Normal)

\* `readLittleByte(rd, &hasTex); if hasTex == 1 { TextureUnMarshal }`; hasTex is
\* one variable read twice, so a failed second read leaves the first value.
OptTextureUnMarshal(s, p, old) ==
    With([r \in {readLittleByte(s, p, 2)} |->
    With([hasTex \in {IF r.ok THEN Uint16Of(r.b) ELSE old} |->
        IF hasTex = 1
        THEN With([t \in {TextureUnMarshal(s, r.p)} |->
                 [v |-> Some(t.v), p |-> t.p, hasTex |-> hasTex]])
        ELSE [v |-> Nil, p |-> r.p, hasTex |-> hasTex]])])

TextureMaterialUnMarshal(s, p) ==
    With([bmt \in {BaseMaterialUnMarshal(s, p)} |->
    With([tex \in {OptTextureUnMarshal(s, bmt.p, 0)} |->
    With([nrm \in {OptTextureUnMarshal(s, tex.p, tex.hasTex)} |->
        [v |-> [kind |-> "Texture", Color |-> bmt.v.Color,
                Transparency |-> bmt.v.Transparency,
                Texture |-> tex.v, Normal |-> nrm.v],
         p |-> nrm.p]])])])

\* A filler byte written at every version.
PbrEmissivePad_Always(v) == <<255>>

\* `if v < V2 { writeLittleByte(wt, byte(255)) }`
PbrEmissivePad(v) == IF v < V2 THEN <<255>> ELSE <<>>

\* `if v < V2 { var b byte; readLittleByte(rd, &b) }`: bytes skipped on read.
PbrEmissiveSkip(v) == IF v < V2 THEN 1 ELSE 0

PbrMaterialMarshal(mtl, v) ==
    TextureMaterialMarshal(mtl) \o mtl.Emissive \o PbrEmissivePad(v)
        \o mtl.Metallic \o mtl.Roughness \o mtl.Reflectance \o mtl.AmbientOcclusion
        \o mtl.ClearCoat \o mtl.ClearCoatRoughness \o mtl.ClearCoatNormal
        \o mtl.Anisotropy \o mtl.AnisotropyDirection \o mtl.Thickness
        \o mtl.SubSurfacePower \o mtl.SheenColor \o mtl.SubSurfaceColor

PbrMaterialUnMarshal(s, p, v) ==
    With([tmtl \in {TextureMaterialUnMarshal(s, p)} |->
    With([em \in {readLittleByte(s, tmtl.p, 3)} |->
    With([pad \in {readLittleByte(s, em.p, PbrEmissiveSkip(v))} |->
    With([r \in {ReadFields(s, pad.p, <<4, 4, 4, 4, 4, 4, 3, 4, 12, 4, 4, 3, 3>>, <<>>)} |->
        [v |-> [kind |-> "Pbr", Color |-> tmtl.v.Color,
                Transparency |-> tmtl.v.Transparency,
                Texture |-> tmtl.v.Texture, Normal |-> tmtl.v.Normal,
                Emissive |-> Dest(em, Zero(3)),
                Metallic |-> r.f[1], Roughness |-> r.f[2], Reflectance |-> r.f[3],
                AmbientOcclusion |-> r.f[4], ClearCoat |-> r.f[5],
                ClearCoatRoughness |-> r.f[6], ClearCoatNormal |-> r.f[7],
                Anisotropy |-> r.f[8], AnisotropyDirection |-> r.f[9],
                Thickness |-> r.f[10], SubSurfacePower |-> r.f[11],
                SheenColor |-> r.f[12], SubSurfaceColor |-> r.f[13]],
         p |-> r.p]])])])])

LambertMaterialMarshal(mtl) ==
    TextureMaterialMarshal(mtl) \o mtl.Ambient \o mtl.Diffuse \o mtl.Emissive

LambertMaterialUnMarshal(s, p) ==
    With([tmt \in {TextureMaterialUnMarshal(s, p)} |->
    With([r \in {ReadFields(s, tmt.p, <<3, 3, 3>>, <<>>)} |->
        [v |-> [kind |-> "Lambert", Color |-> tmt.v.Color,
                Transparency |-> tmt.v.Transparency,
                Texture |-> tmt.v.Texture, Normal |-> tmt.v.Normal,
                Ambient |-> r.f[1], Diffuse |-> r.f[2], Emissive |-> r.f[3]],
         p |-> r.p]])])

PhongMaterialMarshal(mtl) ==
    LambertMaterialMarshal(mtl) \o mtl.Specular \o mtl.Shininess \o mtl.Specularity

PhongMaterialUnMarshal(s, p) ==
    With([mt \in {LambertMaterialUnMarshal(s, p)} |->
    With([r \in {ReadFields(s, mt.p, <<3, 4, 4>>, <<>>)} |->
        [v |-> [kind |-> "Phong", Color |-> mt.v.Color,
                Transparency |-> mt.v.Transparency,
                Texture |-> mt.v.Texture, Normal |-> mt.v.Normal,
                Ambient |-> mt.v.Ambient, Diffuse |-> mt.v.Diffuse,
                Emissive |-> mt.v.Emissive,
                Specular |-> r.f[1], Shininess |-> r.f[2], Specularity |-> r.f[3]],
         p |-> r.p]])])

\* A nil MeshMaterial interface value.
NilMaterial == [kind |-> "nil"]

MaterialMarshal(mt, v) ==
    CASE mt.kind = "Base" ->
            LE32(MESH_TRIANGLE_MATERIAL_TYPE_COLOR) \o BaseMaterialMarshal(mt)
      [] mt.kind = "Texture" ->
            LE32(MESH_TRIANGLE_MATERIAL_TYPE_TEXTURE) \o TextureMaterialMarshal(mt)
      [] mt.kind = "Pbr" ->
            LE32(MESH_TRIANGLE_MATERIAL_TYPE_PBR) \o PbrMaterialMarshal(mt, v)
      [] mt.kind = "Lambert" ->
            LE32(MESH_TRIANGLE_MATERIAL_TYPE_LAMBERT) \o LambertMaterialMarshal(mt)
      [] mt.kind = "Phong" ->
            LE32(MESH_TRIANGLE_MATERIAL_TYPE_PHONG) \o PhongMaterialMarshal(mt)
      [] OTHER -> <<>>

\* A MaterialUnMarshal whose switch falls back to the colour material.
MaterialUnMarshal_DefaultColor(s, p, v) ==
    With([r \in {readLittleByte(s, p, 4)} |->
    With([ty \in {CountOf(r, 0)} |->
        CASE ty = MESH_TRIANGLE_MATERIAL_TYPE_TEXTURE -> TextureMaterialUnMarshal(s, r.p)
          [] ty = MESH_TRIANGLE_MATERIAL_TYPE_PBR -> PbrMaterialUnMarshal(s, r.p, v)
          [] ty = MESH_TRIANGLE_MATERIAL_TYPE_LAMBERT -> LambertMaterialUnMarshal(s, r.p)
          [] ty = MESH_TRIANGLE_MATERIAL_TYPE_PHONG -> PhongMaterialUnMarshal(s, r.p)
          [] OTHER -> BaseMaterialUnMarshal(s, r.p)])])

MaterialUnMarshal(s, p, v) ==
    With([r \in {readLittleByte(s, p, 4)} |->
    With([ty \in {CountOf(r, 0)} |->
        CASE ty = MESH_TRIANGLE_MATERIAL_TYPE_COLOR -> BaseMaterialUnMarshal(s, r.p)
          [] ty = MESH_TRIANGLE_MATERIAL_TYPE_TEXTURE -> TextureMaterialUnMarshal(s, r.p)
          [] ty = MESH_TRIANGLE_MATERIAL_TYPE_PBR -> PbrMaterialUnMarshal(s, r.p, v)
          [] ty = MESH_TRIANGLE_MATERIAL_TYPE_LAMBERT -> LambertMaterialUnMarshal(s, r.p)
          [] ty = MESH_TRIANGLE_MATERIAL_TYPE_PHONG -> PhongMaterialUnMarshal(s, r.p)
          [] OTHER -> [v |-> NilMaterial, p |-> r.p]])])

RECURSIVE MtlsMarshalLoop(_, _)
MtlsMarshalLoop(mtls, v) ==
    IF mtls = <<>> THEN <<>>
    ELSE MaterialMarshal(Head(mtls), v) \o MtlsMarshalLoop(Tail(mtls), v)

MtlsMarshal(mtls, v) == LE32(Len(mtls)) \o MtlsMarshalLoop(mtls, v)

RECURSIVE MtlsUnMarshalLoop(_, _, _, _, _)
MtlsUnMarshalLoop(s, p, v, n, acc) ==
    IF n = 0 THEN [v |-> acc, p |-> p]
    ELSE With([m \in {MaterialUnMarshal(s, p, v)} |->
             MtlsUnMarshalLoop(s, m.p, v, n - 1, Append(acc, m.v))])

MtlsUnMarshal(s, p, v) ==
    With([size \in {readLittleByte(s, p, 4)} |->
        IF CountOf(size, 0) > CountCap THEN [v |-> <<>>, p |-> Exhausted]
        ELSE MtlsUnMarshalLoop(s, size.p, v, CountOf(size, 0), <<>>)])

(***************************************************************************)
(* Mesh nodes                                                              *)
(***************************************************************************)
\* n elements of w bytes each, one readLittleByte per element into a slice made
\* with make([]T, n).
ReadList(s, p, n, w) ==
    IF n > CountCap THEN [f |-> <<>>, p |-> Exhausted]
    ELSE ReadFields(s, p, [i \in 1..n |-> w], <<>>)

FaceVertices(faces) == Flatten([i \in 1..Len(faces) |-> faces[i].Vertex])

\* Only f.Vertex is written: the normal and UV index triples are not persisted.
MeshTriangleMarshal(nd) ==
    nd.Batchid \o LE32(Len(nd.Faces)) \o FaceVertices(nd.Faces)

MeshTriangleUnMarshal(s, p) ==
    With([b \in {readLittleByte(s, p, 4)} |->
    With([size \in {readLittleByte(s, b.p, 4)} |->
    With([fs \in {ReadList(s, size.p, CountOf(size, 0), 12)} |->
        [v |-> [Batchid |-> Dest(b, Zero(4)),
                Faces |-> [i \in 1..Len(fs.f) |->
                              [Vertex |-> fs.f[i], Normal |-> Nil, Uv |-> Nil]]],
         p |-> fs.p]])])])

MeshOutlineMarshal(nd) ==
    nd.Batchid \o LE32(Len(nd.Edges)) \o Flatten(nd.Edges)

MeshOutlineUnMarshal(s, p) ==
    With([b \in {readLittleByte(s, p, 4)} |->
    With([size \in {readLittleByte(s, b.p, 4)} |->
    With([es \in {ReadList(s, size.p, CountOf(size, 0), 8)} |->
        [v |-> [Batchid |-> Dest(b, Zero(4)), Edges |-> es.f], p |-> es.p]])])])

RECURSIVE FaceGroupMarshal(_)
FaceGroupMarshal(fgs) ==
    IF fgs = <<>> THEN <<>>
    ELSE MeshTriangleMarshal(Head(fgs)) \o FaceGroupMarshal(Tail(fgs))

RECURSIVE EdgeGroupMarshal(_)
EdgeGroupMarshal(egs) ==
    IF egs = <<>> THEN <<>>
    ELSE MeshOutlineMarshal(Head(egs)) \o EdgeGroupMarshal(Tail(egs))

\* `if nd.Mat != nil { write uint8(1); write the four rows } else { write uint8(0) }`
MatMarshal(mat) == IF mat # Nil THEN <<1>> \o mat[1] ELSE <<0>>

\* Vertices, normals, colours, texcoords, matrix, face groups, edge groups: the
\* bytes MeshNodeMarshalWithoutProps writes.
MeshNodeMarshalWithoutProps(nd) ==
    LE32(Len(nd.Vertices)) \o Flatten(nd.Vertices)
        \o LE32(Len(nd.Normals)) \o Flatten(nd.Normals)
        \o LE32(Len(nd.Colors)) \o Flatten(nd.Colors)
        \o LE32(Len(nd.TexCoords)) \o Flatten(nd.TexCoords)
        \o MatMarshal(nd.Mat)
        \o LE32(Len(nd.FaceGroup)) \o FaceGroupMarshal(nd.FaceGroup)
        \o LE32(Len(nd.EdgeGroup)) \o EdgeGroupMarshal(nd.EdgeGroup)

\* MeshNodeMarshal writes the same fields as MeshNodeMarshalWithoutProps and
\* returns after the edge groups: nd.Props is not written.
MeshNodeMarshal(nd) ==
    LE32(Len(nd.Vertices)) \o Flatten(nd.Vertices)
        \o LE32(Len(nd.Normals)) \o Flatten(nd.Normals)
        \o LE32(Len(nd.Colors)) \o Flatten(nd.Colors)
        \o LE32(Len(nd.TexCoords)) \o Flatten(nd.TexCoords)
        \o MatMarshal(nd.Mat)
        \o LE32(Len(nd.FaceGroup)) \o FaceGroupMarshal(nd.FaceGroup)
        \o LE32(Len(nd.EdgeGroup)) \o EdgeGroupMarshal(nd.EdgeGroup)

RECURSIVE FaceGroupUnMarshal(_, _, _, _)
FaceGroupUnMarshal(s, p, n, acc) ==
    IF n = 0 THEN [v |-> acc, p |-> p]
    ELSE With([g \in {MeshTriangleUnMarshal(s, p)} |->
             FaceGroupUnMarshal(s, g.p, n - 1, Append(acc, g.v))])

RECURSIVE EdgeGroupUnMarshal(_, _, _, _)
EdgeGroupUnMarshal(s, p, n, acc) ==
    IF n = 0 THEN [v |-> acc, p |-> p]
    ELSE With([g \in {MeshOutlineUnMarshal(s, p)} |->
             EdgeGroupUnMarshal(s, g.p, n - 1, Append(acc, g.v))])

\* The body shared by MeshNodeUnMarshal, MeshNodeUnMarshalWithoutProps and
\* MeshNodeUnMarshalWithVersion.  The count variable `size` is reused from one
\* list to the next, so a failed read leaves the previous list's count in it;
\* ownCounts says that the colour and texcoord counts have variables of their
\* own (colorSize, texCoordSize), as in the last two functions.
NodeUnMarshalBody(s, p, ownCounts) ==
    With([c1 \in {readLittleByte(s, p, 4)} |->
    With([n1 \in {CountOf(c1, 0)} |->
    With([vs \in {ReadList(s, c1.p, n1, 12)} |->
    With([c2 \in {readLittleByte(s, vs.p, 4)} |->
    With([n2 \in {CountOf(c2, n1)} |->
    With([ns \in {ReadList(s, c2.p, n2, 12)} |->
    With([c3 \in {readLittleByte(s, ns.p, 4)} |->
    With([n3 \in {CountOf(c3, IF ownCounts THEN 0 ELSE n2)} |->
    With([cs \in {ReadList(s, c3.p, n3, 3)} |->
    With([c4 \in {readLittleByte(s, cs.p, 4)} |->
    With([n4 \in {CountOf(c4, IF ownCounts THEN 0 ELSE n3)} |->
    With([ts \in {ReadList(s, c4.p, n4, 8)} |->
    With([im \in {readLittleByte(s, ts.p, 1)} |->
    With([isMat \in {IF im.ok THEN im.b[1] ELSE 0} |->
    With([mt \in {IF isMat = 1 THEN ReadFields(s, im.p, <<32, 32, 32, 32>>, <<>>)
         ELSE [f |-> <<>>, p |-> im.p]} |->
    With([c5 \in {readLittleByte(s, mt.p, 4)} |->
    With([n5 \in {CountOf(c5, IF ownCounts THEN n2 ELSE n4)} |->
    With([fg \in {IF n5 > CountCap THEN [v |-> <<>>, p |-> Exhausted]
         ELSE FaceGroupUnMarshal(s, c5.p, n5, <<>>)} |->
    With([c6 \in {readLittleByte(s, fg.p, 4)} |->
    With([n6 \in {CountOf(c6, n5)} |->
    With([eg \in {IF n6 > CountCap THEN [v |-> <<>>, p |-> Exhausted]
         ELSE EdgeGroupUnMarshal(s, c6.p, n6, <<>>)} |->
        [v |-> [Vertices |-> vs.f, Normals |-> ns.f, Colors |-> cs.f,
                TexCoords |-> ts.f,
                Mat |-> IF isMat = 1 THEN Some(Flatten(mt.f)) ELSE Nil,
                FaceGroup |-> fg.v, EdgeGroup |-> eg.v, Props |-> Nil],
         p |-> eg.p]])])])])])])])])])])])])])])])])])])])])])

MeshNodeUnMarshal(s, p) == NodeUnMarshalBody(s, p, FALSE)

MeshNodeUnMarshalWithoutProps(s, p) == NodeUnMarshalBody(s, p, TRUE)

\* Reads the node up to its edge groups and returns: no Properties block is
\* read, at any version.
MeshNodeUnMarshalWithVersion(s, p, v) == NodeUnMarshalBody(s, p, TRUE)

RECURSIVE NodesMarshalLoop(_, _)
NodesMarshalLoop(nds, v) ==
    IF nds = <<>> THEN <<>>
    ELSE (IF v >= V5 THEN MeshNodeMarshal(Head(nds))
          ELSE MeshNodeMarshalWithoutProps(Head(nds)))
             \o NodesMarshalLoop(Tail(nds), v)

MeshNodesMarshalWithVersion(nds, v) == LE32(Len(nds)) \o NodesMarshalLoop(nds, v)

RECURSIVE NodesForInstanceLoop(_)
NodesForInstanceLoop(nds) ==
    IF nds = <<>> THEN <<>>
    ELSE MeshNodeMarshalWithoutProps(Head(nds)) \o NodesForInstanceLoop(Tail(nds))

MeshNodesMarshalForInstanceMesh(nds) == LE32(Len(nds)) \o NodesForInstanceLoop(nds)

\* which: "plain" (MeshNodeUnMarshal), "noprops" (MeshNodeUnMarshalWithoutProps)
\* or "version" (MeshNodeUnMarshalWithVersion).
RECURSIVE NodesUnMarshalLoop(_, _, _, _, _, _)
NodesUnMarshalLoop(s, p, v, which, n, acc) ==
    IF n = 0 THEN [v |-> acc, p |-> p]
    ELSE With([nd \in {CASE which = "plain" -> MeshNodeUnMarshal(s, p)
                [] which = "noprops" -> MeshNodeUnMarshalWithoutProps(s, p)
                [] OTHER -> MeshNodeUnMarshalWithVersion(s, p, v)} |->
             NodesUnMarshalLoop(s, nd.p, v, which, n - 1, Append(acc, nd.v))])

NodesUnMarshalOf(s, p, v, which) ==
    With([size \in {readLittleByte(s, p, 4)} |->
        IF CountOf(size, 0) > CountCap THEN [v |-> <<>>, p |-> Exhausted]
        ELSE NodesUnMarshalLoop(s, size.p, v, which, CountOf(size, 0), <<>>)])

MeshNodesUnMarshal(s, p) == NodesUnMarshalOf(s, p, 0, "plain")

MeshNodesUnMarshalForInstanceMesh(s, p) == NodesUnMarshalOf(s, p, 0, "noprops")

MeshNodesUnMarshalWithVersion(s, p, v) == NodesUnMarshalOf(s, p, v, "version")

(***************************************************************************)
(* Instances                                                               *)
(***************************************************************************)
\* A code field written and read at every version.
HasCode_Always(v) == TRUE

\* `if v >= V4` around the write and the read of BaseMesh.Code.
HasCode(v) == v >= V4

\* The length of the Props slice made without the transform and feature counts.
ExpectedLen_DeclaredOnly(nT, nF, propsLen) == propsLen

\* expectedLen of MeshInstanceNodeUnMarshal: the largest of len(inst.Transfors),
\* len(inst.Features) and the declared propsLen.
ExpectedLen(nT, nF, propsLen) == Max(Max(nT, nF), propsLen)

\* `props != nil && len(*props) > 0`
HasEntries(pr) == pr # Nil /\ DOMAIN pr[1] # {}

\* The flag-then-payload form of one optional Properties value.
FlaggedPropsMarshal(pr, ord) ==
    IF HasEntries(pr) THEN LE32(1) \o PropertiesMarshal(pr, ord) ELSE LE32(0)

RECURSIVE InstancePropsMarshal(_, _, _, _)
InstancePropsMarshal(instNd, i, expectedLen, ord) ==
    IF i > expectedLen THEN <<>>
    ELSE FlaggedPropsMarshal(IF i <= Len(instNd.Props) THEN instNd.Props[i] ELSE Nil, ord)
             \o InstancePropsMarshal(instNd, i + 1, expectedLen, ord)

\* writeLittleByte(wt, instNd.BBox): binary.Write of a nil *[6]float64 fails, so
\* toLittleByteOrder returns nil and writeLittleByte writes nothing.
BBoxMarshal(bbox) == IF bbox # Nil THEN bbox[1] ELSE <<>>


\* Each feature is written as the uint64 it is, whatever the version.
FeaturesMarshal(fs, v) == Flatten(fs)

MeshInstanceNodeMarshal(instNd, v, ord) ==
    LE32(Len(instNd.Transfors)) \o Flatten(instNd.Transfors)
        \o LE32(Len(instNd.Features)) \o FeaturesMarshal(instNd.Features, v)
        \o BBoxMarshal(instNd.BBox)
        \o MtlsMarshal(instNd.Mesh.Materials, v)
        \o MeshNodesMarshalForInstanceMesh(instNd.Mesh.Nodes)
        \o (IF HasCode(v) THEN instNd.Mesh.Code ELSE <<>>)
        \o (IF v >= V5
            THEN LET expectedLen == Max(Len(instNd.Transfors), Len(instNd.Features)) IN
                 LE32(expectedLen) \o InstancePropsMarshal(instNd, 1, expectedLen, ord)
            ELSE <<>>)
        \o instNd.Hash

RECURSIVE InstancesMarshalLoop(_, _, _)
InstancesMarshalLoop(instNd, v, ord) ==
    IF instNd = <<>> THEN <<>>
    ELSE MeshInstanceNodeMarshal(Head(instNd)[1], v, ord)
             \o InstancesMarshalLoop(Tail(instNd), v, ord)

MeshInstanceNodesMarshal(instNd, v, ord) ==
    LE32(Len(instNd)) \o InstancesMarshalLoop(instNd, v, ord)

\* The `for i < propsLen` loop of MeshInstanceNodeUnMarshal.  ok = FALSE is one
\* of its `return nil`s; pfail says that it was PropertiesUnMarshal that failed.
RECURSIVE InstancePropsUnMarshal(_, _, _, _)
InstancePropsUnMarshal(s, p, n, acc) ==
    IF n = 0 THEN [ok |-> TRUE, v |-> acc, p |-> p, pfail |-> FALSE]
    ELSE With([hasProps \in {readLittleByte(s, p, 4)} |->
         IF ~hasProps.ok THEN [ok |-> FALSE, v |-> acc, p |-> hasProps.p, pfail |-> FALSE]
         ELSE IF Uint32Of(hasProps.b) > 0
              THEN With([props \in {PropertiesUnMarshal(s, hasProps.p, Obs0)} |->
                   IF ~props.ok
                   THEN [ok |-> FALSE, v |-> acc, p |-> props.p, pfail |-> TRUE]
                   ELSE InstancePropsUnMarshal(s, props.p, n - 1, Append(acc, props.v))])
              ELSE InstancePropsUnMarshal(s, hasProps.p, n - 1, Append(acc, Nil))])

\* The width the reader uses for one feature.
FeatureWidth(v) == IF v < V3 THEN 4 ELSE 8

\* The V5 tail of MeshInstanceNodeUnMarshal for the fields read so far (base,
\* ending at position q): the Properties array, then the hash.
InstanceTail(s, q, v, base) ==
    IF v >= V5
    THEN With([pl \in {readLittleByte(s, q, 4)} |->
         IF ~pl.ok THEN [v |-> Nil, p |-> pl.p, pfail |-> FALSE, decl |-> 0]
         ELSE
         With([propsLen \in {Uint32Of(pl.b)} |->
         With([expectedLen \in
              {ExpectedLen(Len(base.Transfors), Len(base.Features), propsLen)} |->
         IF expectedLen > CountCap
         THEN [v |-> Nil, p |-> Exhausted, pfail |-> FALSE, decl |-> propsLen]
         ELSE
         With([ps \in {InstancePropsUnMarshal(s, pl.p, propsLen, <<>>)} |->
         IF ~ps.ok
         THEN [v |-> Nil, p |-> ps.p, pfail |-> ps.pfail, decl |-> propsLen]
         ELSE
         With([h \in {readLittleByte(s, ps.p, 8)} |->
             [v |-> Some([Transfors |-> base.Transfors, Features |-> base.Features,
                          BBox |-> base.BBox, Mesh |-> base.Mesh,
                          Props |-> ps.v \o [i \in 1..(expectedLen - propsLen) |-> Nil],
                          Hash |-> Dest(h, Zero(8))]),
              p |-> h.p, pfail |-> FALSE, decl |-> propsLen]])])])])])
    ELSE With([h \in {readLittleByte(s, q, 8)} |->
             [v |-> Some([Transfors |-> base.Transfors, Features |-> base.Features,
                          BBox |-> base.BBox, Mesh |-> base.Mesh,
                          Props |-> <<>>, Hash |-> Dest(h, Zero(8))]),
              p |-> h.p, pfail |-> FALSE, decl |-> 0]])

\* Returns [v, p, pfail, decl]: v is the *InstanceMesh returned (Nil for a
\* `return nil`), pfail whether a PropertiesUnMarshal call returned nil, decl
\* the declared Properties-array length read at V5 (observation only).
MeshInstanceNodeUnMarshal(s, p, v) ==
    With([c1 \in {readLittleByte(s, p, 4)} |->
    With([size \in {CountOf(c1, 0)} |->
    With([tf \in {IF size > CountCap THEN [f |-> <<>>, p |-> Exhausted]
         ELSE ReadFields(s, c1.p, [i \in 1..(4 * size) |-> 32], <<>>)} |->
    With([c2 \in {readLittleByte(s, tf.p, 4)} |->
    With([fsize \in {CountOf(c2, 0)} |->
    With([w \in {FeatureWidth(v)} |->
    With([fr \in {IF fsize > CountCap THEN [ok |-> FALSE, b |-> <<>>, p |-> Exhausted]
         ELSE readLittleByte(s, c2.p, w * fsize)} |->
    With([bb \in {readLittleByte(s, fr.p, 48)} |->
    With([mtls \in {MtlsUnMarshal(s, bb.p, v)} |->
    With([nds \in {MeshNodesUnMarshalForInstanceMesh(s, mtls.p)} |->
    With([cd \in {IF HasCode(v) THEN readLittleByte(s, nds.p, 4)
         ELSE [ok |-> FALSE, b |-> <<>>, p |-> nds.p]} |->
        InstanceTail(s, cd.p, v,
            [Transfors |-> [i \in 1..(Len(tf.f) \div 4) |->
                               tf.f[4 * i - 3] \o tf.f[4 * i - 2]
                                   \o tf.f[4 * i - 1] \o tf.f[4 * i]],
             Features |-> IF fsize > CountCap THEN <<>>
                          ELSE [i \in 1..fsize |->
                                   IF fr.ok
                                   THEN SubSeq(fr.b, w * (i - 1) + 1, w * i) \o Zero(8 - w)
                                   ELSE Zero(8)],
             BBox |-> Some(Dest(bb, Zero(48))),
             Mesh |-> [Materials |-> mtls.v, Nodes |-> nds.v,
                       Code |-> Dest(cd, Zero(4))]])])])])])])])])])])])])

\* `nds[i] = MeshInstanceNodeUnMarshal(rd, v)`: a nil result is stored as it is
\* and the loop goes on with the next instance.
RECURSIVE InstancesUnMarshalLoop(_, _, _, _, _, _, _)
InstancesUnMarshalLoop(s, p, v, n, acc, pfail, decl) ==
    IF n = 0 THEN [v |-> acc, p |-> p, pfail |-> pfail, decl |-> decl]
    ELSE With([nd \in {MeshInstanceNodeUnMarshal(s, p, v)} |->
             InstancesUnMarshalLoop(s, nd.p, v, n - 1, Append(acc, nd.v),
                                    pfail \/ nd.pfail, Append(decl, nd.decl))])

MeshInstanceNodesUnMarshal(s, p, v) ==
    With([size \in {readLittleByte(s, p, 4)} |->
        IF CountOf(size, 0) > CountCap
        THEN [v |-> <<>>, p |-> Exhausted, pfail |-> FALSE, decl |-> <<>>]
        ELSE InstancesUnMarshalLoop(s, size.p, v, CountOf(size, 0), <<>>, FALSE, <<>>)])

(***************************************************************************)
(* Mesh                                                                    *)
(***************************************************************************)
MESH_SIGNATURE == <<102, 119, 116, 109>>

MeshMarshal(ms, ord) ==
    MESH_SIGNATURE \o LE32(ms.Version)
        \o (IF HasCode(ms.Version) THEN ms.Code ELSE <<>>)
        \o MtlsMarshal(ms.Materials, ms.Version)
        \o MeshNodesMarshalWithVersion(ms.Nodes, ms.Version)
        \o MeshInstanceNodesMarshal(ms.InstanceNode, ms.Version, ord)
        \o (IF ms.Version >= V5 THEN FlaggedPropsMarshal(ms.Props, ord) ELSE <<>>)

\* What MeshUnMarshal hands back once everything before the Mesh-level
\* Properties flag is read: hp is the read of the flag, pr the Properties decode
\* that follows it when the flag is set.
MeshResult(ms, ins, hp, pr) ==
    With([withProps \in {ms.Version >= V5 /\ hp.ok /\ Uint32Of(hp.b) > 0} |->
    With([st \in {IF ins.p = Exhausted THEN "exhausted"
         ELSE IF ms.Version >= V5 /\ ~hp.ok THEN "nil"
         ELSE IF withProps /\ ~pr.ok THEN "nil"
         ELSE "mesh"} |->
        [st |-> st,
         ms |-> IF st = "mesh"
                THEN Some([Version |-> ms.Version, Code |-> ms.Code,
                           Materials |-> ms.Materials, Nodes |-> ms.Nodes,
                           InstanceNode |-> ins.v,
                           Props |-> IF withProps THEN pr.v ELSE Nil])
                ELSE Nil,
         pfail |-> ins.pfail \/ (withProps /\ ~pr.ok),
         decl |-> ins.decl, insts |-> ins.v, ver |-> ms.Version,
         mtls |-> ms.Materials,
         p |-> IF ins.p = Exhausted THEN Exhausted
               ELSE IF ms.Version < V5 THEN ins.p
               ELSE IF withProps THEN pr.p ELSE hp.p]])])

\* Returns [st, ms, pfail, decl, insts, ver, mtls, p]: st = "mesh" with ms the Mesh returned,
\* "nil" for a `return nil`, "exhausted" when a declared count was beyond
\* CountCap and the decode is not followed further.  Observation only: pfail,
\* some PropertiesUnMarshal call returned nil; decl, the declared
\* Properties-array length of each instance; insts, what
\* MeshInstanceNodesUnMarshal returned; ver, the version read; mtls, what
\* MtlsUnMarshal returned; p, where the reader stands at the return.
MeshUnMarshal(s) ==
    With([sig \in {rdRead(s, 0, 4)} |->
    With([vr \in {readLittleByte(s, sig.p, 4)} |->
    With([Version \in {CountOf(vr, 0)} |->
    With([cd \in {IF HasCode(Version) THEN readLittleByte(s, vr.p, 4)
         ELSE [ok |-> FALSE, b |-> <<>>, p |-> vr.p]} |->
    With([mtls \in {MtlsUnMarshal(s, cd.p, Version)} |->
    With([nds \in {IF Version >= V5 THEN MeshNodesUnMarshalWithVersion(s, mtls.p, Version)
         ELSE MeshNodesUnMarshal(s, mtls.p)} |->
    With([ins \in {MeshInstanceNodesUnMarshal(s, nds.p, Version)} |->
    With([hp \in {readLittleByte(s, ins.p, 4)} |->
        MeshResult([Version |-> Version, Code |-> Dest(cd, Zero(4)),
                    Materials |-> mtls.v, Nodes |-> nds.v],
                   ins, hp, PropertiesUnMarshal(s, hp.p, Obs0))])])])])])])])])

(***************************************************************************)
(* Inputs of the Properties codec                                          *)
(***************************************************************************)
MaxArr == 2       \* longest array among the generated values
MaxNest == 4      \* deepest nesting among the generated values

KeyK == <<107>>                       \* "k"
KeyN == <<110>>                       \* "n"
EmptyKey == <<>>                      \* ""
LongKey == [i \in 1..(MaxKeyLen + 1) |-> 97]   \* 101 x "a"

\* The orders a run may walk maps in.
Orders == { <<KeyK, KeyN, LongKey, EmptyKey>>, <<KeyN, KeyK, LongKey, EmptyKey>> }

StrV(b) == PropsValue(PROP_TYPE_STRING, b)
IntV(b) == PropsValue(PROP_TYPE_INT, b)
FloatV(b) == PropsValue(PROP_TYPE_FLOAT, b)
BoolV(b) == PropsValue(PROP_TYPE_BOOL, b)
ArrV(a) == PropsValue(PROP_TYPE_ARRAY, a)
MapV(m) == PropsValue(PROP_TYPE_MAP, m)

Int64_9876 == <<148, 38, 0, 0, 0, 0, 0, 0>>
Int64_Neg1 == <<255, 255, 255, 255, 255, 255, 255, 255>>
Float64_1_5 == <<0, 0, 0, 0, 0, 0, 248, 63>>

Leaves ==
    { StrV(<<>>), StrV(<<105, 100>>), IntV(Int64_9876), IntV(Int64_Neg1),
      FloatV(Float64_1_5), BoolV(TRUE), BoolV(FALSE) }

Map1(k, v) == [x \in {k} |-> v]
Map2(v, w) == [x \in {KeyK, KeyN} |-> IF x = KeyK THEN v ELSE w]

ArraysOf(S) == UNION { [1..n -> S] : n \in 0..MaxArr }

\* Values of nesting depth 1: arrays of leaves and maps of leaves.
Flat == Leaves \cup { ArrV(a) : a \in ArraysOf({StrV(<<105, 100>>), BoolV(TRUE), IntV(Int64_9876)}) }
               \cup { MapV(EmptyProps) }
               \cup { MapV(Map1(KeyN, v)) : v \in Leaves }

\* A chain nested d levels deep, alternating map and array.
RECURSIVE Chain(_)
Chain(d) ==
    IF d = 0 THEN BoolV(TRUE)
    ELSE IF d % 2 = 0 THEN ArrV(<<Chain(d - 1), IntV(Int64_Neg1)>>)
    ELSE MapV(Map2(Chain(d - 1), StrV(<<105, 100>>)))

Values == Flat \cup { Chain(d) : d \in 1..MaxNest }

PropsInputs ==
    { Nil, Some(EmptyProps) }
        \cup { Some(Map1(KeyK, v)) : v \in Values }
        \cup { Some(Map2(v, w)) : v \in Flat, w \in {BoolV(FALSE), ArrV(<<>>)} }
        \cup { Some(Map1(LongKey, BoolV(TRUE))), Some(Map1(EmptyKey, StrV(<<>>))) }

(***************************************************************************)
(* PropsSpec: PropertiesMarshal, an optional alteration of the bytes, then *)
(* PropertiesUnMarshal                                                     *)
(***************************************************************************)
NoResult == [ok |-> FALSE, v |-> Nil, p |-> 0, o |-> Obs0]

\* Byte values an alteration may write.
TamperBytes == {0, 1, 2, 4, 6, 101, 255}

PropsInit ==
    /\ mesh = Nil
    /\ properties \in PropsInputs
    /\ stream = <<>>
    /\ result = NoResult
    /\ tampered = FALSE
    /\ pc = "init"
    /\ GltfIdle

PMarshal ==
    /\ pc = "init"
    /\ \E ord \in Orders : stream' = PropertiesMarshal(properties, ord)
    /\ pc' = "marshalled"
    /\ UNCHANGED <<mesh, properties, result, tampered>>
    /\ UNCHANGED gvars

\* The stream reaches the reader with one byte changed (a corrupt file).
Tamper ==
    /\ pc = "marshalled"
    /\ ~tampered
    /\ \E i \in 1..Len(stream), b \in TamperBytes :
          /\ b # stream[i]
          /\ stream' = [stream EXCEPT ![i] = b]
    /\ tampered' = TRUE
    /\ UNCHANGED <<mesh, properties, result, pc>>
    /\ UNCHANGED gvars

\* The stream reaches the reader cut short (a truncated file).
Truncate ==
    /\ pc = "marshalled"
    /\ ~tampered
    /\ \E n \in 0..(Len(stream) - 1) : stream' = SubSeq(stream, 1, n)
    /\ tampered' = TRUE
    /\ UNCHANGED <<mesh, properties, result, pc>>
    /\ UNCHANGED gvars

PUnMarshal ==
    /\ pc = "marshalled"
    /\ result' = PropertiesUnMarshal(stream, 0, Obs0)
    /\ pc' = "decoded"
    /\ UNCHANGED <<mesh, properties, stream, tampered>>
    /\ UNCHANGED gvars

PropsNext == PMarshal \/ Tamper \/ Truncate \/ PUnMarshal

PropsSpec == PropsInit /\ [][PropsNext]_vars

(***************************************************************************)
(* Inputs of the Mesh codec                                                *)
(***************************************************************************)
F32_1 == <<0, 0, 128, 63>>                    \* float32 1.0
F32_Half == <<0, 0, 0, 63>>                   \* float32 0.5
F32_Quarter == <<0, 0, 128, 62>>              \* float32 0.25
F64_1 == <<0, 0, 0, 0, 0, 0, 240, 63>>        \* float64 1.0
F64_2 == <<0, 0, 0, 0, 0, 0, 0, 64>>          \* float64 2.0
F64_Neg1 == <<0, 0, 0, 0, 0, 0, 240, 191>>    \* float64 -1.0

Vec3_000 == Zero(12)
Vec3_100 == F32_1 \o Zero(8)
Vec3_010 == Zero(4) \o F32_1 \o Zero(4)
Vec2_11 == F32_1 \o F32_1

\* mat4d.Ident, and Ident with [0][0] = 2.0, row by row.
Ident == F64_1 \o Zero(32) \o F64_1 \o Zero(32) \o F64_1 \o Zero(32) \o F64_1
Ident2 == F64_2 \o Zero(32) \o F64_1 \o Zero(32) \o F64_1 \o Zero(32) \o F64_1

\* &[6]float64{-1, -1, -1, 1, 1, 1}
UnitBBox == F64_Neg1 \o F64_Neg1 \o F64_Neg1 \o F64_1 \o F64_1 \o F64_1

Code_12345 == <<57, 48, 0, 0>>
Code_54321 == <<49, 212, 0, 0>>
Feature_12345 == <<57, 48, 0, 0, 0, 0, 0, 0>>
Feature_67890 == <<50, 9, 1, 0, 0, 0, 0, 0>>
Hash_1234567890 == <<144, 120, 86, 52, 18, 0, 0, 0>>   \* 0x1234567890

TestTexture ==
    [Id |-> <<7, 0, 0, 0>>, Name |-> <<116, 120>>,
     Size |-> <<2, 0, 0, 0, 0, 0, 0, 0, 2, 0, 0, 0, 0, 0, 0, 0>>,
     Format |-> <<3, 0>>, Type |-> <<1, 0>>, Compressed |-> <<0, 0>>,
     Data |-> <<1, 2, 3, 4>>, Repeated |-> TRUE]

BaseMtl == [kind |-> "Base", Color |-> <<255, 0, 0>>, Transparency |-> F32_Half]

TextureMtl ==
    [kind |-> "Texture", Color |-> <<0, 255, 0>>, Transparency |-> F32_1,
     Texture |-> Some(TestTexture), Normal |-> Nil]

PbrMtl ==
    [kind |-> "Pbr", Color |-> <<0, 0, 255>>, Transparency |-> F32_Quarter,
     Texture |-> Nil, Normal |-> Some(TestTexture),
     Emissive |-> <<10, 20, 30>>, Metallic |-> F32_1, Roughness |-> F32_Half,
     Reflectance |-> F32_Quarter, AmbientOcclusion |-> F32_1, ClearCoat |-> F32_Half,
     ClearCoatRoughness |-> F32_Quarter, ClearCoatNormal |-> <<1, 2, 3>>,
     Anisotropy |-> F32_Half, AnisotropyDirection |-> Vec3_010,
     Thickness |-> F32_1, SubSurfacePower |-> F32_Quarter,
     SheenColor |-> <<4, 5, 6>>, SubSurfaceColor |-> <<7, 8, 9>>]

LambertMtl ==
    [kind |-> "Lambert", Color |-> <<9, 9, 9>>, Transparency |-> F32_Half,
     Texture |-> Nil, Normal |-> Nil,
     Ambient |-> <<1, 1, 1>>, Diffuse |-> <<2, 2, 2>>, Emissive |-> <<3, 3, 3>>]

PhongMtl ==
    [kind |-> "Phong", Color |-> <<8, 8, 8>>, Transparency |-> F32_1,
     Texture |-> Some(TestTexture), Normal |-> Some(TestTexture),
     Ambient |-> <<1, 1, 1>>, Diffuse |-> <<2, 2, 2>>, Emissive |-> <<3, 3, 3>>,
     Specular |-> <<4, 4, 4>>, Shininess |-> F32_Quarter, Specularity |-> F32_Half]

MaterialLists ==
    { <<>>, <<BaseMtl>>, <<PbrMtl>>, <<TextureMtl, LambertMtl>>,
      <<PhongMtl, PbrMtl, BaseMtl>> }

VertexFace(a, b, c) == [Vertex |-> LE32(a) \o LE32(b) \o LE32(c), Normal |-> Nil, Uv |-> Nil]

\* A triangle with one face group, as in TestMeshMarshalUnmarshal.
TriangleNode(pr) ==
    [Vertices |-> <<Vec3_000, Vec3_100, Vec3_010>>, Normals |-> <<>>, Colors |-> <<>>,
     TexCoords |-> <<>>, Mat |-> Nil,
     FaceGroup |-> << [Batchid |-> Zero(4), Faces |-> <<VertexFace(0, 1, 2)>>] >>,
     EdgeGroup |-> <<>>, Props |-> pr]

\* A node with every list filled and a matrix.
FullNode(pr) ==
    [Vertices |-> <<Vec3_000, Vec3_100>>, Normals |-> <<Vec3_010, Vec3_010>>,
     Colors |-> <<<<1, 2, 3>>, <<4, 5, 6>>>>, TexCoords |-> <<Vec2_11, Zero(8)>>,
     Mat |-> Some(Ident2),
     FaceGroup |-> << [Batchid |-> LE32(1), Faces |-> <<VertexFace(0, 1, 1), VertexFace(1, 0, 0)>>],
                      [Batchid |-> Zero(4), Faces |-> <<>>] >>,
     EdgeGroup |-> << [Batchid |-> LE32(2), Edges |-> <<LE32(0) \o LE32(1)>>] >>,
     Props |-> pr]

NameProps == Some(Map1(KeyN, StrV(<<105, 100>>)))
TwoKeyProps == Some(Map2(IntV(Int64_9876), ArrV(<<BoolV(TRUE), StrV(<<>>)>>)))

NodeLists ==
    { <<>>, <<TriangleNode(Nil)>>, <<FullNode(Nil), TriangleNode(Nil)>>,
      <<TriangleNode(NameProps)>> }

TemplateMesh == [Materials |-> <<BaseMtl>>, Nodes |-> <<TriangleNode(Nil)>>, Code |-> Code_54321]
EmptyTemplate == [Materials |-> <<>>, Nodes |-> <<>>, Code |-> Zero(4)]

Instance(ts, fs, bbox, base, prs) ==
    [Transfors |-> ts, Features |-> fs, BBox |-> bbox, Mesh |-> base,
     Props |-> prs, Hash |-> Hash_1234567890]

\* Two transforms, two features, one Properties entry (TestInstanceMeshPropsArrayMismatch).
MismatchInstance ==
    Instance(<<Ident, Ident2>>, <<Feature_12345, Feature_67890>>, Some(UnitBBox),
             TemplateMesh, <<NameProps>>)

\* The same without a bounding box.
NoBBoxInstance ==
    Instance(<<Ident>>, <<Feature_12345>>, Nil, TemplateMesh, <<NameProps>>)

\* No features, so that the feature width plays no part.
PlainInstance == Instance(<<Ident>>, <<>>, Some(UnitBBox), EmptyTemplate, <<>>)

\* The same without a bounding box.
NoBBoxPlainInstance == Instance(<<Ident>>, <<>>, Nil, EmptyTemplate, <<>>)

InstanceLists ==
    { <<>>, <<Some(PlainInstance)>>, <<Some(MismatchInstance)>>, <<Some(NoBBoxInstance)>>,
      <<Some(NoBBoxPlainInstance)>>,
      <<Some(PlainInstance), Some(MismatchInstance)>> }

Versions == {V1, V2, V3, V4, V5}

MeshInputs ==
    { [Version |-> v, Code |-> c, Materials |-> ms, Nodes |-> ns,
       InstanceNode |-> is, Props |-> pr] :
        v \in Versions, c \in {Zero(4), Code_12345}, ms \in MaterialLists,
        ns \in NodeLists, is \in InstanceLists,
        pr \in {Nil, Some(EmptyProps), TwoKeyProps} }

(***************************************************************************)
(* Spec: MeshMarshal then MeshUnMarshal on the bytes written               *)
(***************************************************************************)
NoMesh ==
    [st |-> "none", ms |-> Nil, pfail |-> FALSE, decl |-> <<>>, insts |-> <<>>,
     ver |-> 0, mtls |-> <<>>, p |-> 0]

Init ==
    /\ mesh \in { Some(m) : m \in MeshInputs }
    /\ properties = Nil
    /\ stream = <<>>
    /\ result = NoMesh
    /\ tampered = FALSE
    /\ pc = "init"
    /\ GltfIdle

Marshal ==
    /\ pc = "init"
    /\ \E ord \in Orders : stream' = MeshMarshal(mesh[1], ord)
    /\ pc' = "marshalled"
    /\ UNCHANGED <<mesh, properties, result, tampered>>
    /\ UNCHANGED gvars

UnMarshal ==
    /\ pc = "marshalled"
    /\ result' = MeshUnMarshal(stream)
    /\ pc' = "decoded"
    /\ UNCHANGED <<mesh, properties, stream, tampered>>
    /\ UNCHANGED gvars

Next == Marshal \/ UnMarshal

Spec == Init /\ [][Next]_vars

(***************************************************************************)
(* TamperSpec: MeshMarshal, an optional alteration of the bytes, then      *)
(* MeshUnMarshal                                                           *)
(***************************************************************************)
CountedProps == Some(Map1(KeyK, IntV(Int64_9876)))

\* One transform, one feature, one Properties entry.
CountedInstance ==
    Instance(<<Ident>>, <<Feature_12345>>, Some(UnitBBox), EmptyTemplate, <<CountedProps>>)

\* The same with no Properties entry: its one slot is written as absent.
BareInstance ==
    Instance(<<Ident>>, <<Feature_12345>>, Some(UnitBBox), EmptyTemplate, <<>>)

\* One transform, no feature, two Properties entries.
OverhangInstance ==
    Instance(<<Ident>>, <<>>, Some(UnitBBox), EmptyTemplate, <<NameProps, CountedProps>>)

TamperInputs ==
    { [Version |-> V5, Code |-> Code_12345, Materials |-> <<BaseMtl>>, Nodes |-> <<>>,
       InstanceNode |-> <<Some(CountedInstance)>>, Props |-> NameProps],
      [Version |-> V5, Code |-> Zero(4), Materials |-> <<>>, Nodes |-> <<>>,
       InstanceNode |-> <<Some(BareInstance), Some(CountedInstance)>>, Props |-> Nil],
      [Version |-> V5, Code |-> Zero(4), Materials |-> <<>>,
       Nodes |-> <<TriangleNode(Nil)>>,
       InstanceNode |-> <<Some(MismatchInstance)>>, Props |-> Nil],
      [Version |-> V5, Code |-> Zero(4), Materials |-> <<>>, Nodes |-> <<>>,
       InstanceNode |-> <<Some(OverhangInstance)>>, Props |-> Nil] }

TamperInit ==
    /\ mesh \in { Some(m) : m \in TamperInputs }
    /\ properties = Nil
    /\ stream = <<>>
    /\ result = NoMesh
    /\ tampered = FALSE
    /\ pc = "init"
    /\ GltfIdle

TamperNext == Marshal \/ Tamper \/ Truncate \/ UnMarshal

TamperSpec == TamperInit /\ [][TamperNext]_vars

(***************************************************************************)
(* TruncSpec: MeshMarshal, the stream cut short, then MeshUnMarshal.  The  *)
(* inputs carry no Properties, so every byte written belongs to a          *)
(* primitive scalar field (or to a Properties flag at V5).                 *)
(***************************************************************************)
TruncInputs ==
    { [Version |-> v, Code |-> Code_12345, Materials |-> <<BaseMtl>>,
       Nodes |-> <<TriangleNode(Nil)>>, InstanceNode |-> <<Some(PlainInstance)>>,
       Props |-> Nil] : v \in Versions }
    \cup
    { [Version |-> v, Code |-> Zero(4), Materials |-> <<>>,
       Nodes |-> <<FullNode(Nil), TriangleNode(Nil)>>, InstanceNode |-> <<>>,
       Props |-> Nil] : v \in Versions }

TruncInit ==
    /\ mesh \in { Some(m) : m \in TruncInputs }
    /\ properties = Nil
    /\ stream = <<>>
    /\ result = NoMesh
    /\ tampered = FALSE
    /\ pc = "init"
    /\ GltfIdle

TruncNext == Marshal \/ Truncate \/ UnMarshal

TruncSpec == TruncInit /\ [][TruncNext]_vars

(***************************************************************************)
(* glTF builder (mst_to_gltf): MstToGltf, BuildGltf, GetGltfBinary         *)
(*                                                                         *)
(* Representation.  Here a vertex, normal or texcoord is a tuple of small  *)
(* integers and a face or an edge a tuple of vertex indices; the bytes     *)
(* binary.Write puts into the buffer are computed from them.  Indices      *)
(* into the document's lists are numbers from 0, as in the code.  A field  *)
(* named written, from, call, calls, batch, node, mesh or outline is not a *)
(* field of the Go structure: it records where the element came from.     *)
(***************************************************************************)
\* The little-endian bytes of a float32 holding a small integer.
Float32Bytes(x) ==
    CASE x = 0 -> <<0, 0, 0, 0>>
      [] x = 1 -> <<0, 0, 128, 63>>
      [] x = 2 -> <<0, 0, 0, 64>>
      [] x = 3 -> <<0, 0, 64, 64>>
      [] x = 0 - 1 -> <<0, 0, 128, 191>>

\* binary.Write of a []vec3.T, []vec2.T or of one [3]uint32 / [2]uint32.
FloatsBytes(vs) ==
    Flatten([i \in 1..Len(vs) |-> Flatten([j \in 1..Len(vs[i]) |-> Float32Bytes(vs[i][j])])])

Uint32sBytes(ns) == Flatten([j \in 1..Len(ns) |-> LE32(ns[j])])

\* The `for group { for face { binary.Write(buf, face.Vertex) } }` loop.
FaceIndexBytes(nd) ==
    Flatten([g \in 1..Len(nd.FaceGroup) |->
        Flatten([f \in 1..Len(nd.FaceGroup[g].Faces) |->
            Uint32sBytes(nd.FaceGroup[g].Faces[f].Vertex)])])

\* The `for group { for edge { binary.Write(buf, edge) } }` loop.
EdgeIndexBytes(nd) ==
    Flatten([g \in 1..Len(nd.EdgeGroup) |->
        Flatten([e \in 1..Len(nd.EdgeGroup[g].Edges) |->
            Uint32sBytes(nd.EdgeGroup[g].Edges[e])])])

CreateDoc ==
    [Buffer |-> [ByteLength |-> 0, Data |-> <<>>],
     BufferViews |-> <<>>, Accessors |-> <<>>, Meshes |-> <<>>, Nodes |-> <<>>,
     SceneNodes |-> <<>>, Materials |-> <<>>, Textures |-> <<>>, Images |-> <<>>,
     Samplers |-> <<>>, Extensions |-> Nil, ExtensionsUsed |-> <<>>,
     calls |-> 0]

NewContext(mtlSize, call) ==
    [mtlSize |-> mtlSize, call |-> call, bvIndex |-> 0, bvPos |-> 0, bvTex |-> 0, bvNorm |-> 0]

\* A view whose offset ignores what the local buffer already holds.
WriteRegion_NoRunningOffset(st, buffer, bytes) ==
    [buf |-> st.buf \o bytes,
     bvs |-> Append(st.bvs, [ByteOffset |-> buffer.ByteLength,
                             ByteLength |-> Len(bytes), Buffer |-> 0,
                             written |-> bytes, mesh |-> Exhausted])]

\* One region of buildMeshBufferViews / buildOutlineBufferViews: the view's
\* ByteOffset is uint32(buf.Len()) + buffer.ByteLength before the write and
\* its ByteLength is uint32(buf.Len()) - ByteOffset + buffer.ByteLength after
\* it.  st is [buf, bvs]: the local buffer and the bufferViews slice.
WriteRegion(st, buffer, bytes) ==
    [buf |-> st.buf \o bytes,
     bvs |-> Append(st.bvs,
                    [ByteOffset |-> Len(st.buf) + buffer.ByteLength,
                     ByteLength |-> Len(st.buf \o bytes)
                                      - (Len(st.buf) + buffer.ByteLength)
                                      + buffer.ByteLength,
                     Buffer |-> 0,
                     written |-> bytes, mesh |-> Exhausted])]

\* `buffer.ByteLength += uint32(buf.Len()); buffer.Data = append(...)`.
FlushBuffer(buffer, buf) ==
    [ByteLength |-> buffer.ByteLength + Len(buf), Data |-> buffer.Data \o buf]

\* The texcoord and normal views remembered under each other's name.
buildMeshBufferViews_SwappedViews(ctx, buffer, bufferViews, node) ==
    With([indices \in {WriteRegion([buf |-> <<>>, bvs |-> bufferViews], buffer,
                                   FaceIndexBytes(node))} |->
    With([positions \in {WriteRegion(indices, buffer, FloatsBytes(node.Vertices))} |->
    With([texCoords \in {IF Len(node.TexCoords) > 0
                         THEN WriteRegion(positions, buffer, FloatsBytes(node.TexCoords))
                         ELSE positions} |->
    With([normals \in {IF Len(node.Normals) > 0
                       THEN WriteRegion(texCoords, buffer, FloatsBytes(node.Normals))
                       ELSE texCoords} |->
        [ctx |-> [mtlSize |-> ctx.mtlSize, call |-> ctx.call,
                  bvIndex |-> Len(bufferViews),
                  bvPos |-> Len(indices.bvs),
                  bvNorm |-> IF Len(node.TexCoords) > 0 THEN Len(positions.bvs)
                             ELSE ctx.bvNorm,
                  bvTex |-> IF Len(node.Normals) > 0 THEN Len(texCoords.bvs)
                            ELSE ctx.bvTex],
         buffer |-> FlushBuffer(buffer, normals.buf),
         bufferViews |-> normals.bvs]])])])])

\* Returns [ctx, buffer, bufferViews].
buildMeshBufferViews(ctx, buffer, bufferViews, node) ==
    With([indices \in {WriteRegion([buf |-> <<>>, bvs |-> bufferViews], buffer,
                                   FaceIndexBytes(node))} |->
    With([positions \in {WriteRegion(indices, buffer, FloatsBytes(node.Vertices))} |->
    With([texCoords \in {IF Len(node.TexCoords) > 0
                         THEN WriteRegion(positions, buffer, FloatsBytes(node.TexCoords))
                         ELSE positions} |->
    With([normals \in {IF Len(node.Normals) > 0
                       THEN WriteRegion(texCoords, buffer, FloatsBytes(node.Normals))
                       ELSE texCoords} |->
        [ctx |-> [mtlSize |-> ctx.mtlSize, call |-> ctx.call,
                  bvIndex |-> Len(bufferViews),
                  bvPos |-> Len(indices.bvs),
                  bvTex |-> IF Len(node.TexCoords) > 0 THEN Len(positions.bvs)
                            ELSE ctx.bvTex,
                  bvNorm |-> IF Len(node.Normals) > 0 THEN Len(texCoords.bvs)
                             ELSE ctx.bvNorm],
         buffer |-> FlushBuffer(buffer, normals.buf),
         bufferViews |-> normals.bvs]])])])])

\* Returns [ctx, buffer, bufferViews].
buildOutlineBufferViews(ctx, buffer, bufferViews, node) ==
    With([indices \in {WriteRegion([buf |-> <<>>, bvs |-> bufferViews], buffer,
                                   EdgeIndexBytes(node))} |->
    With([positions \in {WriteRegion(indices, buffer, FloatsBytes(node.Vertices))} |->
        [ctx |-> [mtlSize |-> ctx.mtlSize, call |-> ctx.call,
                  bvIndex |-> Len(bufferViews),
                  bvPos |-> Len(indices.bvs),
                  bvTex |-> ctx.bvTex,
                  bvNorm |-> ctx.bvNorm],
         buffer |-> FlushBuffer(buffer, positions.buf),
         bufferViews |-> positions.bvs]])])

\* `batchID := group.Batchid; if batchID < 0 { batchID = 0 }`.
ClampBatch(batchID) == IF batchID < 0 THEN 0 ELSE batchID

\* A material index that forgets the materials already in the document.
MaterialID_NoOffset(batchID, ctx) == ClampBatch(batchID)

\* `materialID := uint32(batchID) + ctx.mtlSize`.
MaterialID(batchID, ctx) == ClampBatch(batchID) + ctx.mtlSize

\* startOffset at group i (from 1): the faces, or edges, of the groups before.
StartOffset(lens, i) == Len(Flatten([g \in 1..(i - 1) |-> Zero(lens[g])]))

\* An index offset counted in indices instead of bytes.
FaceIndexOffset_InIndices(startOffset) == startOffset * 3

\* `ByteOffset: startOffset * 12`.
FaceIndexOffset(startOffset) == startOffset * 12

\* An edge offset with the stride of a face.
EdgeIndexOffset_FaceStride(startOffset) == startOffset * 12

\* `ByteOffset: startOffset * 8`.
EdgeIndexOffset(startOffset) == startOffset * 8

\* node.GetBoundbox(): the componentwise minimum and maximum of the vertices.
MinOf(S) == CHOOSE x \in S : \A y \in S : x <= y
MaxOf(S) == CHOOSE x \in S : \A y \in S : x >= y
GetBoundbox(node) ==
    [Min |-> [c \in 1..3 |-> MinOf({ node.Vertices[i][c] : i \in 1..Len(node.Vertices) })],
     Max |-> [c \in 1..3 |-> MaxOf({ node.Vertices[i][c] : i \in 1..Len(node.Vertices) })]]

PositionAccessor(ctx, node) ==
    [ComponentType |-> "FLOAT", Type |-> "VEC3", ByteOffset |-> 0,
     Count |-> Len(node.Vertices), BufferView |-> ctx.bvPos,
     Min |-> Some(GetBoundbox(node).Min), Max |-> Some(GetBoundbox(node).Max),
     mesh |-> Exhausted]

PlainAccessor(componentType, type, byteOffset, count, bufferView) ==
    [ComponentType |-> componentType, Type |-> type, ByteOffset |-> byteOffset,
     Count |-> count, BufferView |-> bufferView, Min |-> Nil, Max |-> Nil,
     mesh |-> Exhausted]

\* The attribute indices of buildMeshPrimitives: POSITION, then TEXCOORD_0 and
\* NORMAL when the node has them, each one more than the last.
MeshAttributes(node, positionAccessorIndex) ==
    [a \in {"POSITION"}
            \cup (IF Len(node.TexCoords) > 0 THEN {"TEXCOORD_0"} ELSE {})
            \cup (IF Len(node.Normals) > 0 THEN {"NORMAL"} ELSE {}) |->
        CASE a = "POSITION" -> positionAccessorIndex
          [] a = "TEXCOORD_0" -> positionAccessorIndex + 1
          [] a = "NORMAL" ->
                positionAccessorIndex + (IF Len(node.TexCoords) > 0 THEN 2 ELSE 1)]

\* Returns [mesh, accessors].
buildMeshPrimitives(ctx, accessors, node) ==
    [mesh |->
        [Primitives |->
            [i \in 1..Len(node.FaceGroup) |->
                [Material |-> MaterialID(node.FaceGroup[i].Batchid, ctx),
                 Indices |-> (i - 1) + Len(accessors),
                 Mode |-> "TRIANGLES",
                 Attributes |-> MeshAttributes(node, Len(node.FaceGroup) + Len(accessors)),
                 call |-> ctx.call, batch |-> node.FaceGroup[i].Batchid]],
         node |-> node, call |-> ctx.call, outline |-> FALSE],
     accessors |->
        accessors
            \o [i \in 1..Len(node.FaceGroup) |->
                   PlainAccessor("UNSIGNED_INT", "SCALAR",
                       FaceIndexOffset(StartOffset(
                           [g \in 1..Len(node.FaceGroup) |-> Len(node.FaceGroup[g].Faces)], i)),
                       Len(node.FaceGroup[i].Faces) * 3, ctx.bvIndex)]
            \o <<PositionAccessor(ctx, node)>>
            \o (IF Len(node.TexCoords) > 0
                THEN <<PlainAccessor("FLOAT", "VEC2", 0, Len(node.TexCoords), ctx.bvTex)>>
                ELSE <<>>)
            \o (IF Len(node.Normals) > 0
                THEN <<PlainAccessor("FLOAT", "VEC3", 0, Len(node.Normals), ctx.bvNorm)>>
                ELSE <<>>)]

\* Returns [mesh, accessors].
buildOutlineMesh(ctx, accessors, node) ==
    [mesh |->
        [Primitives |->
            [i \in 1..Len(node.EdgeGroup) |->
                [Material |-> MaterialID(node.EdgeGroup[i].Batchid, ctx),
                 Indices |-> (i - 1) + Len(accessors),
                 Mode |-> "LINE_STRIP",
                 Attributes |-> [a \in {"POSITION"} |-> Len(node.EdgeGroup) + Len(accessors)],
                 call |-> ctx.call, batch |-> node.EdgeGroup[i].Batchid]],
         node |-> node, call |-> ctx.call, outline |-> TRUE],
     accessors |->
        accessors
            \o [i \in 1..Len(node.EdgeGroup) |->
                   PlainAccessor("UNSIGNED_INT", "SCALAR",
                       EdgeIndexOffset(StartOffset(
                           [g \in 1..Len(node.EdgeGroup) |-> Len(node.EdgeGroup[g].Edges)], i)),
                       Len(node.EdgeGroup[i].Edges) * 2, ctx.bvIndex)]
            \o <<PositionAccessor(ctx, node)>>]

\* mat4d.Decompose on a matrix that scales along the axes (by positive factors)
\* and translates: the translation is the last row, the scale the diagonal and
\* the rotation the identity quaternion.
Decompose(m) ==
    [Translation |-> <<m[4][1], m[4][2], m[4][3]>>,
     Rotation |-> <<0, 0, 0, 1>>,
     Scale |-> <<m[1][1], m[2][2], m[3][3]>>]

\* The glTF node of a MeshNode placed without a transform list.
PlainNode(meshIndex, node) ==
    IF node.Mat # Nil
    THEN [Mesh |-> meshIndex,
          Translation |-> Decompose(node.Mat[1]).Translation,
          Rotation |-> Decompose(node.Mat[1]).Rotation,
          Scale |-> Decompose(node.Mat[1]).Scale]
    ELSE [Mesh |-> meshIndex, Translation |-> <<0, 0, 0>>,
          Rotation |-> <<0, 0, 0, 0>>, Scale |-> <<0, 0, 0>>]

TransformedNode(meshIndex, transform) ==
    [Mesh |-> meshIndex,
     Translation |-> Decompose(transform).Translation,
     Rotation |-> Decompose(transform).Rotation,
     Scale |-> Decompose(transform).Scale]

\* The nodes appended for one MeshNode: one when transforms is nil, else one per
\* transform; each is also listed in Scenes[0].Nodes.
AppendNodes(d, meshIndex, node, transforms) ==
    With([added \in {IF transforms = Nil THEN <<PlainNode(meshIndex, node)>>
                     ELSE [t \in 1..Len(transforms[1]) |->
                              TransformedNode(meshIndex, transforms[1][t])]} |->
        [d EXCEPT !.Nodes = d.Nodes \o added,
                  !.SceneNodes = d.SceneNodes
                                    \o [t \in 1..Len(added) |-> Len(d.Nodes) + t - 1]]])

\* Marks the elements a node added to a list (those after the first old) with
\* the index of the glTF mesh made for the node.
MadeFor(list, old, meshIndex) ==
    [i \in 1..Len(list) |->
        IF i > old THEN [list[i] EXCEPT !.mesh = meshIndex] ELSE list[i]]

\* The body of `for _, node := range mesh.Nodes`; st is [doc, ctx].
RECURSIVE BaseMeshNodes(_, _, _, _)
BaseMeshNodes(st, nodes, transforms, exportOutline) ==
    IF nodes = <<>> THEN st
    ELSE
    With([node \in {Head(nodes)} |->
    With([useOutline \in {exportOutline /\ Len(node.EdgeGroup) > 0} |->
    With([bv \in {IF useOutline
                  THEN buildOutlineBufferViews(st.ctx, st.doc.Buffer, st.doc.BufferViews, node)
                  ELSE buildMeshBufferViews(st.ctx, st.doc.Buffer, st.doc.BufferViews, node)} |->
    With([pr \in {IF useOutline THEN buildOutlineMesh(bv.ctx, st.doc.Accessors, node)
                  ELSE buildMeshPrimitives(bv.ctx, st.doc.Accessors, node)} |->
        BaseMeshNodes(
            [doc |-> AppendNodes([st.doc EXCEPT !.Buffer = bv.buffer,
                                                !.BufferViews =
                                                    MadeFor(bv.bufferViews,
                                                            Len(st.doc.BufferViews),
                                                            Len(st.doc.Meshes)),
                                                !.Meshes = Append(st.doc.Meshes, pr.mesh),
                                                !.Accessors =
                                                    MadeFor(pr.accessors,
                                                            Len(st.doc.Accessors),
                                                            Len(st.doc.Meshes))],
                                 Len(st.doc.Meshes), node, transforms),
             ctx |-> bv.ctx],
            Tail(nodes), transforms, exportOutline)])])])])

\* DecompressImage: zlib.NewReader and io.ReadAll.  A well-formed stream is the
\* zlib header byte 0x78 followed by the stored data; anything else is an error.
DecompressImage(src) ==
    IF src # <<>> /\ src[1] = 120 THEN [ok |-> TRUE, data |-> Tail(src)]
    ELSE [ok |-> FALSE, data |-> <<>>]

TextureFormatSize(format) ==
    CASE format = "RGB" -> 3 [] format = "RGBA" -> 4 [] format = "R" -> 1

\* The NRGBA colour LoadTexture reads at offset p (from 0) of data.
TexturePixel(data, p, sz) ==
    CASE sz = 4 -> <<data[p + 1], data[p + 2], data[p + 3], data[p + 4]>>
      [] sz = 3 -> <<data[p + 1], data[p + 2], data[p + 3], 255>>
      [] sz = 1 -> <<data[p + 1], data[p + 1], data[p + 1], 255>>

\* The image rows, top first: source row i lands on row h - i - 1 when flipY.
TextureRows(tex, data, flipY) ==
    [r \in 1..tex.Size[2] |->
        [x \in 1..tex.Size[1] |->
            TexturePixel(data,
                (IF flipY THEN tex.Size[2] - r ELSE r - 1) * tex.Size[1]
                        * TextureFormatSize(tex.Format)
                    + (x - 1) * TextureFormatSize(tex.Format),
                TextureFormatSize(tex.Format))]]

\* Returns [ok, img].
LoadTexture(tex, flipY) ==
    IF tex.Compressed = "ZLIB"
    THEN IF DecompressImage(tex.Data).ok
         THEN [ok |-> TRUE, img |-> [Size |-> tex.Size,
                                     Rows |-> TextureRows(tex, DecompressImage(tex.Data).data, flipY)]]
         ELSE [ok |-> FALSE, img |-> Nil]
    ELSE [ok |-> TRUE, img |-> [Size |-> tex.Size, Rows |-> TextureRows(tex, tex.Data, flipY)]]

\* png.Encode: the bytes of an image, as the first four signature bytes, the
\* size and the rows of pixels.
PngEncode(img) ==
    <<137, 80, 78, 71>> \o <<img.Size[1], img.Size[2]>>
        \o Flatten([r \in 1..Len(img.Rows) |-> Flatten(img.Rows[r])])

\* Returns [ok, doc, tex]; the buffer is doc.Buffers[0].
buildTexture(d, texture) ==
    IF ~LoadTexture(texture, TRUE).ok THEN [ok |-> FALSE, doc |-> d, tex |-> Nil]
    ELSE
    With([png \in {PngEncode(LoadTexture(texture, TRUE).img)} |->
        [ok |-> TRUE,
         doc |-> [d EXCEPT
                    !.BufferViews = Append(d.BufferViews,
                                        [ByteOffset |-> d.Buffer.ByteLength,
                                         ByteLength |-> Len(png), Buffer |-> 0,
                                         written |-> png, mesh |-> Exhausted]),
                    !.Buffer = FlushBuffer(d.Buffer, png),
                    !.Images = Append(d.Images, [MimeType |-> "image/png",
                                                 BufferView |-> Len(d.BufferViews)]),
                    !.Samplers = Append(d.Samplers,
                                        IF texture.Repeated
                                        THEN [WrapS |-> "REPEAT", WrapT |-> "REPEAT"]
                                        ELSE [WrapS |-> "CLAMP_TO_EDGE", WrapT |-> "CLAMP_TO_EDGE"])],
         tex |-> [Sampler |-> Len(d.Samplers), Source |-> Len(d.Images), from |-> texture.Id]]])

\* `textureMap[id] = index`.
MapSet(m, k, v) == [x \in DOMAIN m \cup {k} |-> IF x = k THEN v ELSE m[x]]

\* One `if textureMaterial != nil && textureMaterial.Has...()` block of
\* fillMaterials; st is [ok, doc, textureMap] and the result adds index.
UseTexture(st, texture) ==
    IF texture.Id \in DOMAIN st.textureMap
    THEN [ok |-> TRUE, doc |-> st.doc, textureMap |-> st.textureMap,
          index |-> st.textureMap[texture.Id]]
    ELSE
    With([bt \in {buildTexture(st.doc, texture)} |->
        [ok |-> bt.ok,
         doc |-> IF bt.ok THEN [bt.doc EXCEPT !.Textures = Append(bt.doc.Textures, bt.tex)]
                 ELSE st.doc,
         textureMap |-> MapSet(st.textureMap, texture.Id, Len(st.doc.Textures)),
         index |-> Len(st.doc.Textures)]])

\* The `switch mtl := material.(type)` of fillMaterials: which materials carry a
\* TextureMaterial, and which use the specular-glossiness extension.
textureMaterial(material) ==
    IF material.kind \in {"Pbr", "Lambert", "Phong", "Texture"} THEN Some(material) ELSE Nil

SpecularExtension == "KHR_materials_pbrSpecularGlossiness"

\* The body of `for _, material := range materials`; st is
\* [ok, doc, textureMap, useExtension], entry the index of Head(materials).
RECURSIVE FillLoop(_, _, _, _)
FillLoop(st, materials, call, entry) ==
    IF materials = <<>> \/ ~st.ok THEN st
    ELSE
    With([tm \in {textureMaterial(Head(materials))} |->
    With([base \in {IF tm # Nil /\ tm[1].Texture # Nil
                    THEN UseTexture(st, tm[1].Texture[1])
                    ELSE [ok |-> TRUE, doc |-> st.doc, textureMap |-> st.textureMap,
                          index |-> Exhausted]} |->
    With([normal \in {IF base.ok /\ tm # Nil /\ tm[1].Normal # Nil
                      THEN UseTexture(base, tm[1].Normal[1])
                      ELSE [ok |-> base.ok, doc |-> base.doc, textureMap |-> base.textureMap,
                            index |-> Exhausted]} |->
        IF ~normal.ok
        THEN [ok |-> FALSE, doc |-> normal.doc, textureMap |-> normal.textureMap,
              useExtension |-> st.useExtension]
        ELSE FillLoop(
                [ok |-> TRUE,
                 doc |-> [normal.doc EXCEPT !.Materials =
                            Append(normal.doc.Materials,
                                [BaseColorTexture |-> IF base.index = Exhausted THEN Nil
                                                      ELSE Some(base.index),
                                 NormalTexture |-> IF normal.index = Exhausted THEN Nil
                                                   ELSE Some(normal.index),
                                 HasBaseColor |-> Head(materials).kind # "nil",
                                 Specular |-> Head(materials).kind \in {"Lambert", "Phong"},
                                 from |-> [call |-> call, entry |-> entry]])],
                 textureMap |-> normal.textureMap,
                 useExtension |-> st.useExtension
                                    \/ Head(materials).kind \in {"Lambert", "Phong"}],
                Tail(materials), call, entry + 1)])])])

\* A fill that registers the extension without looking for it first.
fillMaterials_AlwaysAppend(d, materials, call) ==
    With([st \in {FillLoop([ok |-> TRUE, doc |-> d, textureMap |-> <<>>,
                            useExtension |-> FALSE], materials, call, 0)} |->
        [ok |-> st.ok,
         doc |-> IF st.ok /\ st.useExtension
                 THEN [st.doc EXCEPT !.ExtensionsUsed = Append(@, SpecularExtension)]
                 ELSE st.doc]])

\* Returns [ok, doc].
fillMaterials(d, materials, call) ==
    With([st \in {FillLoop([ok |-> TRUE, doc |-> d, textureMap |-> <<>>,
                            useExtension |-> FALSE], materials, call, 0)} |->
        [ok |-> st.ok,
         doc |-> IF st.ok /\ st.useExtension
                       /\ \A i \in 1..Len(st.doc.ExtensionsUsed) :
                              st.doc.ExtensionsUsed[i] # SpecularExtension
                 THEN [st.doc EXCEPT !.ExtensionsUsed = Append(@, SpecularExtension)]
                 ELSE st.doc]])

\* Returns [ok, doc]; transforms is Nil for a nil slice, else Some(list).
buildGltfFromBaseMesh(d, baseMesh, transforms, exportOutline) ==
    With([st \in {BaseMeshNodes([doc |-> [d EXCEPT !.calls = d.calls + 1],
                                 ctx |-> NewContext(Len(d.Materials), d.calls)],
                                baseMesh.Nodes, transforms, exportOutline)} |->
        fillMaterials(st.doc, baseMesh.Materials, d.calls)])

\* The dynamic Go type a PropsValue's payload has once it is an interface{}.
GoTypeOf(t) ==
    CASE t = PROP_TYPE_STRING -> "string"
      [] t = PROP_TYPE_INT -> "int64"
      [] t = PROP_TYPE_FLOAT -> "float64"
      [] t = PROP_TYPE_BOOL -> "bool"
      [] t = PROP_TYPE_ARRAY -> "[]interface{}"
      [] t = PROP_TYPE_MAP -> "map[string]interface{}"
      [] OTHER -> "nil"

RECURSIVE propsValueToInterface(_)
propsValueToInterface(value) ==
    [dyn |-> GoTypeOf(value.Type),
     v |-> CASE value.Type \in {PROP_TYPE_STRING, PROP_TYPE_INT, PROP_TYPE_FLOAT,
                                PROP_TYPE_BOOL} -> value.Value
             [] value.Type = PROP_TYPE_ARRAY ->
                    [i \in 1..Len(value.Value) |-> propsValueToInterface(value.Value[i])]
             [] value.Type = PROP_TYPE_MAP ->
                    [k \in DOMAIN value.Value |-> propsValueToInterface(value.Value[k])]
             [] OTHER -> <<>>]

\* props is a non-nil *Properties here; the nil case is tested by the callers.
propsToMap(props) == [k \in DOMAIN props |-> propsValueToInterface(props[k])]

\* Keys of doc.Extensions: the fixed name, or the name with the two numbers that
\* fmt.Sprintf("%d_%d", i, j) appends.
MeshPropsKey == <<"MST_mesh_properties">>
InstancePropsKey(i, j) == <<"MST_instance_mesh_properties", i, j>>

\* `for k, v := range propsMap { extMap[k] = v }`.
MergeMaps(extMap, propsMap) ==
    [k \in DOMAIN extMap \cup DOMAIN propsMap |->
        IF k \in DOMAIN propsMap THEN propsMap[k] ELSE extMap[k]]

NonEmptyProps(props) == props # Nil /\ DOMAIN props[1] # {}

\* Mesh-level properties of BuildGltf: set the fixed key, or merge into the map
\* that is already there.
MeshExtensions(extensions, props) ==
    IF ~NonEmptyProps(props) THEN extensions
    ELSE IF extensions = Nil THEN Some(Map1(MeshPropsKey, propsToMap(props[1])))
    ELSE IF MeshPropsKey \in DOMAIN extensions[1]
    THEN Some(MapSet(extensions[1], MeshPropsKey,
                     MergeMaps(extensions[1][MeshPropsKey], propsToMap(props[1]))))
    ELSE Some(MapSet(extensions[1], MeshPropsKey, propsToMap(props[1])))

\* `for j, props := range instance.Props` of instance i (both from 0).
RECURSIVE InstanceExtensions(_, _, _, _)
InstanceExtensions(extensions, propsList, i, j) ==
    IF j >= Len(propsList) THEN extensions
    ELSE InstanceExtensions(
            IF ~NonEmptyProps(propsList[j + 1]) THEN extensions
            ELSE Some(MapSet(IF extensions = Nil THEN <<>> ELSE extensions[1],
                             InstancePropsKey(i, j), propsToMap(propsList[j + 1][1]))),
            propsList, i, j + 1)

\* `for i, instance := range mesh.Instances`; st is [ok, doc].
RECURSIVE InstancesLoop(_, _, _)
InstancesLoop(st, instances, i) ==
    IF i >= Len(instances) \/ ~st.ok THEN st
    ELSE InstancesLoop(
            buildGltfFromBaseMesh(
                [st.doc EXCEPT !.Extensions =
                    InstanceExtensions(st.doc.Extensions, instances[i + 1].Props, i, 0)],
                instances[i + 1].Mesh, instances[i + 1].Transfors, FALSE),
            instances, i + 1)

\* Returns [ok, doc].
BuildGltf(d, m, exportOutline) ==
    InstancesLoop(
        buildGltfFromBaseMesh([d EXCEPT !.Extensions = MeshExtensions(d.Extensions, m.Props)],
                              m.BaseMesh, Nil, exportOutline),
        m.Instances, 0)

PaddingChar == 32

\* A padding that adds a whole unit to an aligned offset.
calcPadding_Ceil(offset, unit) == unit - (offset % unit)

calcPadding(offset, unit) ==
    IF offset % unit # 0 THEN unit - (offset % unit) ELSE 0

\* bufferWriter.Write: the bytes go to the inner buffer and are counted.
WriterWrite(w, p) == [bytes |-> w.bytes \o p, size |-> w.size + Len(p)]

\* gltf.NewEncoder(writer.writer).Encode(doc): the encoder holds the inner
\* buffer, so what it writes is not counted by the bufferWriter.
EncodeInto(w, encoded) == [bytes |-> w.bytes \o encoded, size |-> w.size]

\* The binary container the encoder produces: the header with the total length,
\* a JSON chunk of jsonWords 4-byte words and, when the buffer holds data, a BIN
\* chunk with the data padded with zeros to a multiple of 4.
GlbEncode(d, jsonWords) ==
    With([bin \in {IF d.Buffer.Data = <<>> THEN <<>>
                   ELSE LE32(Len(d.Buffer.Data) + calcPadding(Len(d.Buffer.Data), 4))
                            \o <<66, 73, 78, 0>> \o d.Buffer.Data
                            \o Zero(calcPadding(Len(d.Buffer.Data), 4))} |->
        <<103, 108, 84, 70>> \o LE32(2) \o LE32(12 + 8 + 4 * jsonWords + Len(bin))
            \o LE32(4 * jsonWords) \o <<74, 83, 79, 78>>
            \o [i \in 1..(4 * jsonWords) |-> IF i = 1 THEN 123 ELSE IF i = 2 THEN 125 ELSE 32]
            \o bin])

\* Returns the bytes; encoded is what the encoder writes for doc.
GetGltfBinary(encoded, paddingUnit) ==
    With([writer \in {EncodeInto([bytes |-> <<>>, size |-> 0], encoded)} |->
        IF calcPadding(writer.size, paddingUnit) = 0 THEN writer.bytes
        ELSE WriterWrite(writer,
                [i \in 1..calcPadding(writer.size, paddingUnit) |-> PaddingChar]).bytes])

(***************************************************************************)
(* Inputs of the glTF builder                                              *)
(***************************************************************************)
MaxMeshes == 2      \* longest list of meshes handed to MstToGltf
MaxJsonWords == 2   \* longest JSON chunk of the encoder, in 4-byte words

GFace(a, b, c) == [Vertex |-> <<a, b, c>>]

\* A triangle: one face group, one edge group, no matrix.
GTriangle ==
    [Vertices |-> <<<<0, 0, 0>>, <<1, 0, 0>>, <<0, 1, 0>>>>,
     Normals |-> <<>>, TexCoords |-> <<>>, Mat |-> Nil,
     FaceGroup |-> <<[Batchid |-> 0, Faces |-> <<GFace(0, 1, 2)>>]>>,
     EdgeGroup |-> <<[Batchid |-> 0, Edges |-> <<<<0, 1>>, <<1, 2>>, <<2, 0>>>>]>>]

\* A square with every attribute, a matrix, two face groups and two edge groups;
\* the first batch id is the negative sentinel.
GSquare ==
    [Vertices |-> <<<<0, 0, 0>>, <<1, 0, 0>>, <<1, 1, 0>>, <<0, 1, 0>>>>,
     Normals |-> <<<<0, 0, 1>>, <<0, 0, 1>>, <<0, 0, 1>>, <<0, 0, 1>>>>,
     TexCoords |-> <<<<0, 0>>, <<1, 0>>, <<1, 1>>, <<0, 1>>>>,
     Mat |-> Some(<<<<2, 0, 0, 0>>, <<0, 1, 0, 0>>, <<0, 0, 3, 0>>, <<1, 2, 3, 1>>>>),
     FaceGroup |-> <<[Batchid |-> 0 - 1, Faces |-> <<GFace(0, 1, 2), GFace(0, 2, 3)>>],
                     [Batchid |-> 1, Faces |-> <<GFace(3, 1, 0)>>]>>,
     EdgeGroup |-> <<[Batchid |-> 1, Edges |-> <<<<0, 1>>, <<1, 2>>>>],
                     [Batchid |-> 0, Edges |-> <<<<2, 3>>>>]>>]

\* Faces and texcoords, no normals and no edges.
GStrip ==
    [Vertices |-> <<<<0, 0, 0>>, <<2, 0, 0>>, <<0, 0 - 1, 3>>>>,
     Normals |-> <<>>, TexCoords |-> <<<<0, 0>>, <<1, 0>>, <<0, 1>>>>, Mat |-> Nil,
     FaceGroup |-> <<[Batchid |-> 0, Faces |-> <<>>],
                     [Batchid |-> 0, Faces |-> <<GFace(2, 1, 0)>>]>>,
     EdgeGroup |-> <<>>]

\* 2 x 1 RGB pixels, uncompressed.
TextureA ==
    [Id |-> 7, Size |-> <<2, 1>>, Format |-> "RGB", Compressed |-> "NONE",
     Data |-> <<10, 20, 30, 40, 50, 60>>, Repeated |-> TRUE]

\* 1 x 2 grey pixels in a zlib stream.
TextureB ==
    [Id |-> 9, Size |-> <<1, 2>>, Format |-> "R", Compressed |-> "ZLIB",
     Data |-> <<120, 5, 6>>, Repeated |-> FALSE]

\* A zlib stream that does not start with the zlib header.
TextureCorrupt ==
    [Id |-> 3, Size |-> <<1, 1>>, Format |-> "RGBA", Compressed |-> "ZLIB",
     Data |-> <<0, 1, 2, 3, 4>>, Repeated |-> FALSE]

GMaterial(kind, texture, normal) == [kind |-> kind, Texture |-> texture, Normal |-> normal]

GBase == GMaterial("Base", Nil, Nil)
GTextured == GMaterial("Texture", Some(TextureA), Nil)
GPbr == GMaterial("Pbr", Some(TextureA), Some(TextureB))
GPhong == GMaterial("Phong", Some(TextureB), Nil)
GLambert == GMaterial("Lambert", Nil, Nil)
GCorrupt == GMaterial("Texture", Some(TextureCorrupt), Nil)

GBaseMesh(materials, nodes) == [Materials |-> materials, Nodes |-> nodes]

GInstance(transforms, base, props) ==
    [Transfors |-> transforms, Mesh |-> base, Props |-> props]

Translate123 == <<<<1, 0, 0, 0>>, <<0, 1, 0, 0>>, <<0, 0, 1, 0>>, <<1, 2, 3, 1>>>>
Scale2 == <<<<2, 0, 0, 0>>, <<0, 2, 0, 0>>, <<0, 0, 2, 0>>, <<0, 0, 0, 1>>>>

GMesh(base, props, instances) == [BaseMesh |-> base, Props |-> props, Instances |-> instances]

GltfMeshes ==
    { \* two materials, mesh-level properties, no instance
      GMesh(GBaseMesh(<<GBase, GTextured>>, <<GSquare>>), NameProps, <<>>),
      \* an instance placed twice, with its own properties
      GMesh(GBaseMesh(<<GTextured>>, <<GTriangle>>), TwoKeyProps,
            <<GInstance(Some(<<Translate123, Scale2>>),
                        GBaseMesh(<<GPhong>>, <<GTriangle, GStrip>>),
                        <<NameProps, Nil>>)>>),
      \* an instance with a nil transform list, one with an empty list
      GMesh(GBaseMesh(<<>>, <<>>), Nil,
            <<GInstance(Nil, GBaseMesh(<<GLambert>>, <<GTriangle>>), <<TwoKeyProps>>),
              GInstance(Some(<<>>), GBaseMesh(<<GBase, GTextured>>, <<GSquare>>), <<>>)>>),
      \* two materials sharing both textures
      GMesh(GBaseMesh(<<GPbr, GPbr, GLambert>>, <<GStrip, GSquare>>), Some(EmptyProps), <<>>),
      \* a texture that cannot be loaded, on the material the second face group uses
      GMesh(GBaseMesh(<<GBase, GCorrupt>>, <<GSquare>>), Nil, <<>>) }

GltfInputs == UNION { [1..n -> GltfMeshes] : n \in 0..MaxMeshes }

\* Alignment units handed to GetGltfBinary.
PaddingUnits == {1, 3, 4, 8}

(***************************************************************************)
(* GltfSpec: MstToGltf or MstToGltfWithOutline over a list of meshes, then *)
(* GetGltfBinary                                                           *)
(***************************************************************************)
CodecIdle ==
    /\ mesh = Nil
    /\ properties = Nil
    /\ stream = <<>>
    /\ result = NoMesh
    /\ tampered = FALSE

GltfInit ==
    /\ meshes \in GltfInputs
    /\ outline \in BOOLEAN
    /\ doc = Some(CreateDoc)
    /\ built = 0
    /\ blob = Nil
    /\ padCall = Nil
    /\ resorted = Nil
    /\ failedDoc = Nil
    /\ pc = "build"
    /\ CodecIdle

\* One iteration of `for _, mesh := range meshes`: BuildGltf on the next mesh;
\* an error makes MstToGltf return a nil document.
MstToGltfStep ==
    /\ pc = "build"
    /\ built < Len(meshes)
    /\ \E r \in {BuildGltf(doc[1], meshes[built + 1], outline)} :
          IF r.ok
          THEN /\ doc' = Some(r.doc) /\ built' = built + 1 /\ pc' = "build"
               /\ failedDoc' = failedDoc
          ELSE /\ doc' = Nil /\ built' = built /\ pc' = "failed"
               /\ failedDoc' = Some(r.doc)
    /\ UNCHANGED <<meshes, outline, blob, padCall, resorted>>
    /\ UNCHANGED cvars

\* `return doc, nil`.
MstToGltfReturn ==
    /\ pc = "build"
    /\ built = Len(meshes)
    /\ pc' = "built"
    /\ UNCHANGED gvars
    /\ UNCHANGED cvars

\* GetGltfBinary on the finished document.
GetGltfBinaryCall ==
    /\ pc = "built"
    /\ \E unit \in PaddingUnits, jsonWords \in 1..MaxJsonWords :
          blob' = Some([unit |-> unit, encoded |-> GlbEncode(doc[1], jsonWords),
                        bytes |-> GetGltfBinary(GlbEncode(doc[1], jsonWords), unit)])
    /\ pc' = "encoded"
    /\ UNCHANGED <<meshes, outline, doc, built, padCall, resorted, failedDoc>>
    /\ UNCHANGED cvars

GltfNext == MstToGltfStep \/ MstToGltfReturn \/ GetGltfBinaryCall

GltfSpec == GltfInit /\ [][GltfNext]_vars

(***************************************************************************)
(* PadSpec: one call of calcPadding                                        *)
(***************************************************************************)
MaxOffset == 16     \* largest offset handed to calcPadding
MaxUnit == 8        \* largest unit handed to calcPadding

PadInit ==
    /\ padCall \in { Some([offset |-> o, unit |-> u, padding |-> Nil]) :
                        o \in 0..MaxOffset, u \in 1..MaxUnit }
    /\ pc = "pad"
    /\ meshes = <<>>
    /\ outline = FALSE
    /\ doc = Nil
    /\ built = 0
    /\ blob = Nil
    /\ resorted = Nil
    /\ failedDoc = Nil
    /\ CodecIdle

CalcPadding ==
    /\ pc = "pad"
    /\ padCall' = Some([padCall[1] EXCEPT
                          !.padding = Some(calcPadding(padCall[1].offset, padCall[1].unit))])
    /\ pc' = "padded"
    /\ UNCHANGED <<meshes, outline, doc, built, blob, resorted, failedDoc>>
    /\ UNCHANGED cvars

PadNext == CalcPadding

PadSpec == PadInit /\ [][PadNext]_vars

(***************************************************************************)
(* Claims about the Properties codec (checked under PropsSpec)             *)
(***************************************************************************)
Deref(pr) == IF pr = Nil THEN EmptyProps ELSE pr[1]

PropsDecoded == pc = "decoded" /\ mesh = Nil

RECURSIVE ValueWithinCeilings(_)
RECURSIVE MapWithinCeilings(_)

ValueWithinCeilings(value) ==
    CASE value.Type = PROP_TYPE_STRING -> Len(value.Value) <= MaxStrLen
      [] value.Type = PROP_TYPE_ARRAY ->
            /\ Len(value.Value) <= MaxArrLen
            /\ \A i \in 1..Len(value.Value) : ValueWithinCeilings(value.Value[i])
      [] value.Type = PROP_TYPE_MAP -> MapWithinCeilings(value.Value)
      [] OTHER -> TRUE

MapWithinCeilings(p) ==
    /\ Cardinality(DOMAIN p) <= MaxPropsCount
    /\ \A k \in DOMAIN p : Len(k) <= MaxKeyLen /\ ValueWithinCeilings(p[k])

RECURSIVE ValueDepth(_)
ValueDepth(value) ==
    CASE value.Type = PROP_TYPE_ARRAY /\ value.Value # <<>> ->
            1 + ValueDepth(value.Value[1])
      [] value.Type = PROP_TYPE_MAP /\ KeyK \in DOMAIN value.Value ->
            1 + ValueDepth(value.Value[KeyK])
      [] OTHER -> 0

\* C2 as stated: PropertiesUnMarshal(PropertiesMarshal(p)) returns p's keys,
\* type tags and values, for any keys and any number of entries.
C2_RoundTripAnyProps ==
    (PropsDecoded /\ ~tampered) => (result.ok /\ result.v = Some(Deref(properties)))

\* C2 amended: the round trip returns p's keys, tags and values whenever every
\* map of p has at most 1000 entries, every key at most 100 bytes and every
\* string and array at most 100000 bytes or elements.
C2_RoundTripWithinCeilings ==
    (PropsDecoded /\ ~tampered /\ MapWithinCeilings(Deref(properties)))
        => (result.ok /\ result.v = Some(Deref(properties)))

C2_Witness ==
    /\ PropsDecoded /\ ~tampered
    /\ KeyK \in DOMAIN Deref(properties)
    /\ ValueDepth(Deref(properties)[KeyK]) >= MaxNest
    /\ result.v = Some(Deref(properties))

\* C4: a declared entry count above 1000, a key length above 100, a string or
\* array length above 100000, a type tag that names no value type, or a stream
\* that ends inside a declared field makes PropertiesUnMarshal return nil, with
\* no map at all.
C4_CeilingsAndTruncationGiveNil ==
    (PropsDecoded /\ ( \/ result.o.cnt > MaxPropsCount
                       \/ result.o.key > MaxKeyLen
                       \/ result.o.len > MaxStrLen
                       \/ result.o.tag
                       \/ result.o.eof ))
        => (~result.ok /\ result.v = Nil)

C4_Witness ==
    /\ PropsDecoded
    /\ result.o.key > MaxKeyLen
    /\ result.v = Nil

C4_WitnessCount == PropsDecoded /\ result.o.cnt > MaxPropsCount /\ result.v = Nil
C4_WitnessLen == PropsDecoded /\ result.o.len > MaxStrLen /\ result.v = Nil
C4_WitnessTag == PropsDecoded /\ result.o.tag /\ result.v = Nil
C4_WitnessEof == PropsDecoded /\ result.o.eof /\ result.v = Nil

(***************************************************************************)
(* Claims about the Mesh codec                                             *)
(***************************************************************************)
MeshDecoded == pc = "decoded" /\ mesh # Nil

\* A decode of exactly the bytes MeshMarshal wrote.
RoundTrip == MeshDecoded /\ ~tampered

\* An absent Properties value and an empty one are both written as "absent".
Norm(pr) == IF HasEntries(pr) THEN pr ELSE Nil

GatedCode(c, v) == IF v >= V4 THEN c ELSE Zero(4)

SameGeometry(a, b) ==
    /\ a.Vertices = b.Vertices /\ a.Normals = b.Normals /\ a.Colors = b.Colors
    /\ a.TexCoords = b.TexCoords /\ a.Mat = b.Mat
    /\ a.FaceGroup = b.FaceGroup /\ a.EdgeGroup = b.EdgeGroup

SameNodes(orig, got, v, withProps) ==
    /\ Len(got) = Len(orig)
    /\ \A i \in 1..Len(orig) :
          /\ SameGeometry(orig[i], got[i])
          /\ got[i].Props = IF withProps /\ v >= V5 THEN Norm(orig[i].Props) ELSE Nil

\* The Properties array an instance is expected to come back with.
ExpectedProps(inst, v) ==
    IF v >= V5
    THEN [j \in 1..Max(Len(inst.Transfors), Len(inst.Features)) |->
             IF j <= Len(inst.Props) THEN Norm(inst.Props[j]) ELSE Nil]
    ELSE <<>>

\* Everything of an instance but its bounding box.
SameInstanceButBBox(orig, got, v) ==
    /\ got.Transfors = orig.Transfors
    /\ got.Features = orig.Features
    /\ got.Mesh.Materials = orig.Mesh.Materials
    /\ SameNodes(orig.Mesh.Nodes, got.Mesh.Nodes, v, FALSE)
    /\ got.Mesh.Code = GatedCode(orig.Mesh.Code, v)
    /\ got.Props = ExpectedProps(orig, v)
    /\ got.Hash = orig.Hash

SameInstances(orig, got, v) ==
    /\ Len(got) = Len(orig)
    /\ \A i \in 1..Len(orig) :
          /\ got[i] # Nil
          /\ SameInstanceButBBox(orig[i][1], got[i][1], v)
          /\ orig[i][1].BBox # Nil => got[i][1].BBox = orig[i][1].BBox

SameMesh(orig, got) ==
    /\ got.Version = orig.Version
    /\ got.Code = GatedCode(orig.Code, orig.Version)
    /\ got.Materials = orig.Materials
    /\ SameNodes(orig.Nodes, got.Nodes, orig.Version, TRUE)
    /\ SameInstances(orig.InstanceNode, got.InstanceNode, orig.Version)
    /\ got.Props = IF orig.Version >= V5 THEN Norm(orig.Props) ELSE Nil

\* C1: for every version 1..5 and every material variant, decoding the bytes
\* MeshMarshal wrote returns a Mesh equal to the original on every field valid
\* for the version; code before V4 and Properties before V5 come back as 0 and
\* absent.
C1_RoundTripEveryVersion ==
    RoundTrip => (result.st = "mesh" /\ SameMesh(mesh[1], result.ms[1]))

\* C6: an instance whose features fit in 32 bits, written at V1 or V2 and read
\* at the same version, comes back with the same features in the same order.
C6_FeaturesSurviveBeforeV3 ==
    (RoundTrip /\ mesh[1].Version < V3)
        => /\ Len(result.insts) = Len(mesh[1].InstanceNode)
           /\ \A i \in 1..Len(result.insts) :
                 /\ result.insts[i] # Nil
                 /\ result.insts[i][1].Features = mesh[1].InstanceNode[i][1].Features

\* C7: the Properties of a top-level node written at V5 are restored on that
\* node by the decode.
C7_NodePropsRestoredAtV5 ==
    (RoundTrip /\ mesh[1].Version >= V5 /\ result.st = "mesh")
        => /\ Len(result.ms[1].Nodes) = Len(mesh[1].Nodes)
           /\ \A i \in 1..Len(mesh[1].Nodes) :
                 result.ms[1].Nodes[i].Props = Norm(mesh[1].Nodes[i].Props)

\* C8: an instance without a bounding box comes back from a round trip, at any
\* version, with its transforms, features, embedded BaseMesh, Properties array
\* and hash as they were written.
C8_NilBBoxKeepsTheRest ==
    RoundTrip
        => \A i \in 1..Len(mesh[1].InstanceNode) :
              mesh[1].InstanceNode[i][1].BBox = Nil
                  => /\ i <= Len(result.insts)
                     /\ result.insts[i] # Nil
                     /\ SameInstanceButBBox(mesh[1].InstanceNode[i][1],
                                            result.insts[i][1], mesh[1].Version)

\* C9: a Mesh written with code c at a version below V4 decodes with code 0,
\* and written at V4 or V5 decodes with code c.
C9_CodeGatedAtV4 ==
    (RoundTrip /\ result.st = "mesh")
        => result.ms[1].Code = (IF mesh[1].Version < V4 THEN Zero(4) ELSE mesh[1].Code)

C9_Witness ==
    /\ RoundTrip /\ result.st = "mesh"
    /\ mesh[1].Code = Code_12345
    /\ \/ mesh[1].Version = V3 /\ result.ms[1].Code = Zero(4)
       \/ mesh[1].Version = V4 /\ result.ms[1].Code = Code_12345

\* C10: a PbrMaterial of the Mesh's material list decodes with every field as
\* written, the fields after the emissive colour included, at V1 (where one
\* filler byte 255 follows the emissive colour in the stream) as at V2 and later
\* (where none does).
C10_PbrFillerWrittenAndSkipped ==
    /\ RoundTrip
          => /\ Len(result.mtls) = Len(mesh[1].Materials)
             /\ \A i \in 1..Len(mesh[1].Materials) :
                   mesh[1].Materials[i].kind = "Pbr"
                       => result.mtls[i] = mesh[1].Materials[i]
    /\ (RoundTrip /\ mesh[1].Materials # <<>> /\ mesh[1].Materials[1].kind = "Pbr")
          => LET mtl == mesh[1].Materials[1]
                 v == mesh[1].Version
                 \* signature, version, code from V4 on, material count, type tag,
                 \* the TextureMaterial part, the emissive colour
                 off == 8 + (IF v >= V4 THEN 4 ELSE 0) + 8
                          + Len(TextureMaterialMarshal(mtl)) + 3
             IN  IF v < V2
                 THEN /\ stream[off + 1] = 255
                      /\ SubSeq(stream, off + 2, off + 5) = mtl.Metallic
                 ELSE SubSeq(stream, off + 1, off + 4) = mtl.Metallic

\* The inputs none of the three defects touches: no instance features before
\* V3, no node Properties at V5, no instance without a bounding box.
OutsideDefects(ms) ==
    /\ \A i \in 1..Len(ms.InstanceNode) :
          /\ ms.InstanceNode[i][1].BBox # Nil
          /\ ms.Version < V3 => ms.InstanceNode[i][1].Features = <<>>
    /\ \A i \in 1..Len(ms.Nodes) : ms.Version >= V5 => ~HasEntries(ms.Nodes[i].Props)

\* On those inputs the round trip of C1 does hold.
RoundTripOutsideDefects ==
    (RoundTrip /\ OutsideDefects(mesh[1]))
        => (result.st = "mesh" /\ SameMesh(mesh[1], result.ms[1]))

\* C3: when a V5 decode has a PropertiesUnMarshal call fail, for the Mesh's
\* own block or for an entry of an instance's array, MeshUnMarshal returns nil;
\* a Mesh it returns holds no nil instance.
C3_PropsFailureGivesNil ==
    MeshDecoded
        => /\ result.pfail => result.st # "mesh"
           /\ result.st = "mesh"
                 => \A i \in 1..Len(result.ms[1].InstanceNode) :
                       result.ms[1].InstanceNode[i] # Nil

\* C5: an InstanceMesh that MeshInstanceNodeUnMarshal returns at V5 has
\* len(Props) = max(declared length, len(Transfors), len(Features)) with every
\* slot from the declared length on nil; and an instance written with more
\* transforms or features than Properties entries comes back with its entries
\* first and nil in the slots after them.
C5_PropsArrayReconciled ==
    /\ (MeshDecoded /\ result.ver >= V5)
          => \A i \in 1..Len(result.insts) :
                result.insts[i] # Nil
                    => LET inst == result.insts[i][1] IN
                       /\ Len(inst.Props)
                              = Max(Max(Len(inst.Transfors), Len(inst.Features)),
                                    result.decl[i])
                       /\ \A j \in (result.decl[i] + 1)..Len(inst.Props) :
                             inst.Props[j] = Nil
    /\ (RoundTrip /\ mesh[1].Version = V5)
          => /\ Len(result.insts) = Len(mesh[1].InstanceNode)
             /\ \A i \in 1..Len(result.insts) :
                   /\ result.insts[i] # Nil
                   /\ result.insts[i][1].Props = ExpectedProps(mesh[1].InstanceNode[i][1], V5)

\* A decode that met a declared length below the transform count and padded.
C5_Witness ==
    /\ MeshDecoded /\ result.ver >= V5
    /\ \E i \in 1..Len(result.insts) :
          /\ result.insts[i] # Nil
          /\ result.decl[i] < Len(result.insts[i][1].Transfors)
          /\ result.insts[i][1].Props[Len(result.insts[i][1].Props)] = Nil

\* The 2-transform, 2-feature, 1-entry instance after its round trip.
C5_WitnessExample ==
    /\ RoundTrip /\ mesh[1].InstanceNode = <<Some(MismatchInstance)>>
    /\ result.insts[1] # Nil
    /\ result.insts[1][1].Props = <<NameProps, Nil>>

C10_Witness ==
    /\ RoundTrip
    /\ mesh[1].Version = V1
    /\ \E i \in 1..Len(mesh[1].Materials) :
          /\ mesh[1].Materials[i].kind = "Pbr"
          /\ result.mtls[i].Metallic = PbrMtl.Metallic
          /\ result.mtls[i].SubSurfaceColor = PbrMtl.SubSurfaceColor

(***************************************************************************)
(* Claims about cut and altered streams                                    *)
(***************************************************************************)
\* The widest single read of a scalar field: the [6]float64 bounding box.
WidestField == 6 * 8

\* What MeshUnMarshal returns for the first m bytes of the stream followed by
\* zero bytes up to the length written: every field from offset m on reads as
\* zero.
ZeroFilled(m) ==
    MeshUnMarshal(SubSeq(stream, 1, m)
                      \o Zero(Len(MeshMarshal(mesh[1], CHOOSE ord \in Orders : TRUE)) - m))

\* C11: a stream cut inside a primitive scalar field still decodes to a Mesh,
\* in which the cut field and the primitive fields after it are zero: the Mesh
\* returned is the one read from the fields before the cut field followed by
\* zero fields.
C11_TruncatedScalarsReadAsZero ==
    (pc = "decoded" /\ mesh # Nil /\ tampered) =>
        /\ result.st = "mesh"
        /\ \E m \in Max(0, Len(stream) - WidestField + 1)..Len(stream) :
              result.ms = ZeroFilled(m).ms

\* The 4-byte field at offset p of the stream, as a number.
FieldAt(p) == Uint32Of(SubSeq(stream, p + 1, p + 4))

MaterialTags ==
    { MESH_TRIANGLE_MATERIAL_TYPE_COLOR, MESH_TRIANGLE_MATERIAL_TYPE_TEXTURE,
      MESH_TRIANGLE_MATERIAL_TYPE_PBR, MESH_TRIANGLE_MATERIAL_TYPE_LAMBERT,
      MESH_TRIANGLE_MATERIAL_TYPE_PHONG }

PropTags ==
    { PROP_TYPE_STRING, PROP_TYPE_INT, PROP_TYPE_FLOAT, PROP_TYPE_BOOL,
      PROP_TYPE_ARRAY, PROP_TYPE_MAP }

\* Where MeshUnMarshal reads the count of the material list, given the version
\* it read.
MtlsOffset == 8 + (IF HasCode(result.ver) THEN 4 ELSE 0)

\* C12: at every offset of the stream read, a material type tag outside the
\* five defined values makes MaterialUnMarshal return no material (and
\* MtlsUnMarshal stores it as such in the list MeshUnMarshal gets), a property
\* type tag outside the six defined values makes unmarshalPropsValue return
\* the invalid value, and a Properties decode that meets such a tag returns
\* absent.
C12_UnknownTagsGiveNilAndInvalid ==
    (pc = "decoded" /\ mesh # Nil) =>
        /\ \A p \in 0..(Len(stream) - 4) :
              /\ FieldAt(p) \notin MaterialTags =>
                    MaterialUnMarshal(stream, p, result.ver).v = NilMaterial
              /\ FieldAt(p) \notin PropTags =>
                    unmarshalPropsValue(stream, p + 4, FieldAt(p), Obs0).v = InvalidValue
        /\ \A p \in 0..Len(stream) :
              With([props \in {PropertiesUnMarshal(stream, p, Obs0)} |->
                  props.o.tag => (~props.ok /\ props.v = Nil)])
        /\ (/\ MtlsOffset + 8 <= Len(stream)
            /\ FieldAt(MtlsOffset) \in 1..CountCap
            /\ FieldAt(MtlsOffset + 4) \notin MaterialTags)
              => (result.mtls # <<>> /\ result.mtls[1] = NilMaterial)

\* An altered material tag met by MeshUnMarshal.
C12_Witness ==
    /\ pc = "decoded" /\ mesh # Nil /\ tampered
    /\ MtlsOffset + 8 <= Len(stream)
    /\ FieldAt(MtlsOffset) = 1
    /\ FieldAt(MtlsOffset + 4) \notin MaterialTags
    /\ result.mtls = <<NilMaterial>>

\* An altered property tag met by a Properties decode inside MeshUnMarshal.
C12_WitnessProperty ==
    /\ pc = "decoded" /\ mesh # Nil /\ tampered
    /\ result.pfail
    /\ \E p \in 0..Len(stream) : PropertiesUnMarshal(stream, p, Obs0).o.tag

(***************************************************************************)
(* Claims about the glTF builder (checked under GltfSpec)                  *)
(***************************************************************************)
\* The sum of the lengths of the first n buffer views.
ViewsLength(bvs, n) == Len(Flatten([i \in 1..n |-> Zero(bvs[i].ByteLength)]))

\* The bytes of the shared buffer a view covers.
ViewBytes(d, bv) == SubSeq(d.Buffer.Data, bv.ByteOffset + 1, bv.ByteOffset + bv.ByteLength)

\* C13: every buffer view starts where the shared buffer ended when its region
\* was written and is as long as the bytes written for it, so the views follow
\* one another without gap or overlap and cover exactly those bytes, and the
\* buffer's ByteLength is the length of its Data and the sum of the views.
C13_BufferViewsAreContiguous ==
    doc # Nil =>
        /\ \A i \in 1..Len(doc[1].BufferViews) :
              /\ doc[1].BufferViews[i].ByteOffset = ViewsLength(doc[1].BufferViews, i - 1)
              /\ doc[1].BufferViews[i].ByteLength = Len(doc[1].BufferViews[i].written)
              /\ ViewBytes(doc[1], doc[1].BufferViews[i]) = doc[1].BufferViews[i].written
        /\ doc[1].Buffer.ByteLength = Len(doc[1].Buffer.Data)
        /\ doc[1].Buffer.ByteLength
              = ViewsLength(doc[1].BufferViews, Len(doc[1].BufferViews))

\* A finished document with a mesh node that has texcoords and normals, an
\* outline node and an embedded PNG.
C13_Witness ==
    /\ pc = "built"
    /\ Len(doc[1].Images) > 0
    /\ \E i \in 1..Len(doc[1].Meshes) : doc[1].Meshes[i].outline
    /\ \E i \in 1..Len(doc[1].Meshes) :
          /\ ~doc[1].Meshes[i].outline
          /\ Len(doc[1].Meshes[i].node.Normals) > 0
          /\ Len(doc[1].Meshes[i].node.TexCoords) > 0
    /\ doc[1].Buffer.ByteLength > 0

\* The bytes an accessor selects: count elements of width bytes each, starting
\* at its byte offset inside its buffer view.
AccessorBytes(d, acc, width) ==
    SubSeq(ViewBytes(d, d.BufferViews[acc.BufferView + 1]),
           acc.ByteOffset + 1, acc.ByteOffset + acc.Count * width)

FacesOf(group) == Flatten([f \in 1..Len(group.Faces) |-> Uint32sBytes(group.Faces[f].Vertex)])

\* C14: the index accessor of face group i starts 12 bytes per face of the
\* groups before it, counts 3 indices per face of the group, refers to the index
\* buffer view of its node and selects exactly the vertex indices of the group.
C14_IndexAccessorSelectsGroup ==
    doc # Nil =>
        \A m \in 1..Len(doc[1].Meshes) :
            ~doc[1].Meshes[m].outline =>
                \A i \in 1..Len(doc[1].Meshes[m].node.FaceGroup) :
                    /\ i <= Len(doc[1].Meshes[m].Primitives)
                    /\ With([acc \in {doc[1].Accessors[doc[1].Meshes[m].Primitives[i].Indices + 1]} |->
                        /\ acc.ByteOffset
                              = 12 * Len(Flatten([g \in 1..(i - 1) |->
                                        doc[1].Meshes[m].node.FaceGroup[g].Faces]))
                        /\ acc.Count = 3 * Len(doc[1].Meshes[m].node.FaceGroup[i].Faces)
                        /\ doc[1].BufferViews[acc.BufferView + 1].written
                              = FaceIndexBytes(doc[1].Meshes[m].node)
                        /\ AccessorBytes(doc[1], acc, 4)
                              = FacesOf(doc[1].Meshes[m].node.FaceGroup[i])])

\* A document holding a mesh whose second face group follows a non-empty first
\* group and has a face itself.
C14_Witness ==
    /\ doc # Nil
    /\ \E m \in 1..Len(doc[1].Meshes) :
          /\ ~doc[1].Meshes[m].outline
          /\ Len(doc[1].Meshes[m].node.FaceGroup) >= 2
          /\ Len(doc[1].Meshes[m].node.FaceGroup[1].Faces) >= 2
          /\ Len(doc[1].Meshes[m].node.FaceGroup[2].Faces) >= 1
          /\ doc[1].Accessors[doc[1].Meshes[m].Primitives[2].Indices + 1].ByteOffset = 24
          /\ m >= 2

\* The BaseMeshes the builder has gone through after the first n meshes, in the
\* order of its calls: each mesh's own BaseMesh, then those of its instances.
BaseMeshesBuilt(n) ==
    Flatten([k \in 1..n |->
        <<meshes[k].BaseMesh>>
            \o [i \in 1..Len(meshes[k].Instances) |-> meshes[k].Instances[i].Mesh]])

\* Every batch id of a BaseMesh is below its material count.
BatchIdsInRange(baseMesh) ==
    \A n \in 1..Len(baseMesh.Nodes) :
        /\ \A g \in 1..Len(baseMesh.Nodes[n].FaceGroup) :
              baseMesh.Nodes[n].FaceGroup[g].Batchid < Len(baseMesh.Materials)
        /\ \A g \in 1..Len(baseMesh.Nodes[n].EdgeGroup) :
              baseMesh.Nodes[n].EdgeGroup[g].Batchid < Len(baseMesh.Materials)

\* C15: the document's materials are the input materials of the BaseMeshes, one
\* each and in input order, and a primitive's material index leads to the
\* material made from entry max(batchId, 0) of the list of its own BaseMesh.
C15_MaterialsFollowInput ==
    doc # Nil =>
        /\ [k \in 1..Len(doc[1].Materials) |-> doc[1].Materials[k].from]
              = Flatten([c \in 1..Len(BaseMeshesBuilt(built)) |->
                    [e \in 1..Len(BaseMeshesBuilt(built)[c].Materials) |->
                        [call |-> c - 1, entry |-> e - 1]]])
        /\ \A k \in 1..Len(doc[1].Materials) :
              doc[1].Materials[k].Specular
                  = (BaseMeshesBuilt(built)[doc[1].Materials[k].from.call + 1]
                        .Materials[doc[1].Materials[k].from.entry + 1].kind
                            \in {"Lambert", "Phong"})
        /\ \A m \in 1..Len(doc[1].Meshes) :
              BatchIdsInRange(BaseMeshesBuilt(built)[doc[1].Meshes[m].call + 1]) =>
                  \A p \in 1..Len(doc[1].Meshes[m].Primitives) :
                      /\ doc[1].Meshes[m].Primitives[p].Material < Len(doc[1].Materials)
                      /\ doc[1].Materials[doc[1].Meshes[m].Primitives[p].Material + 1].from
                            = [call |-> doc[1].Meshes[m].call,
                               entry |-> Max(doc[1].Meshes[m].Primitives[p].batch, 0)]

\* A document built by three calls or more, in which a primitive of a later call
\* has a negative batch id and another has batch id 1.
C15_Witness ==
    /\ pc = "built"
    /\ doc[1].calls >= 3
    /\ \E m \in 1..Len(doc[1].Meshes) :
          /\ doc[1].Meshes[m].call >= 1
          /\ \E p \in 1..Len(doc[1].Meshes[m].Primitives) :
                doc[1].Meshes[m].Primitives[p].batch < 0
          /\ \E p \in 1..Len(doc[1].Meshes[m].Primitives) :
                /\ doc[1].Meshes[m].Primitives[p].batch = 1
                /\ doc[1].Meshes[m].Primitives[p].Material >= 2

\* C16: within one document a texture is embedded at most once per texture id:
\* no two texture records (each with its own image, sampler and PNG buffer view)
\* come from the same id.
C16_TextureEmbeddedOncePerId ==
    doc # Nil =>
        /\ \A i, j \in 1..Len(doc[1].Textures) :
              doc[1].Textures[i].from = doc[1].Textures[j].from => i = j
        /\ Len(doc[1].Images) = Len(doc[1].Textures)
        /\ Len(doc[1].Samplers) = Len(doc[1].Textures)

\* The values of the document's extension map.
ExtensionValues(d) ==
    IF d.Extensions = Nil THEN {}
    ELSE { d.Extensions[1][key] : key \in DOMAIN d.Extensions[1] }

\* C17: in the finished document every non-empty Properties of a mesh, and every
\* non-empty entry of the Properties list of an instance, is a value of the
\* extension map, as it was given and not replaced by or mixed with another's.
C17_PropertiesAllKept ==
    pc = "built" =>
        \A k \in 1..Len(meshes) :
            /\ NonEmptyProps(meshes[k].Props) =>
                  propsToMap(meshes[k].Props[1]) \in ExtensionValues(doc[1])
            /\ \A i \in 1..Len(meshes[k].Instances) :
                  \A j \in 1..Len(meshes[k].Instances[i].Props) :
                      NonEmptyProps(meshes[k].Instances[i].Props[j]) =>
                          propsToMap(meshes[k].Instances[i].Props[j][1])
                              \in ExtensionValues(doc[1])

\* C18: GetGltfBinary returns the encoding followed by calcPadding(encoded size,
\* unit) bytes of 0x20, so the length of what it returns is a multiple of unit.
C18_BinaryPaddedToUnit ==
    pc = "encoded" =>
        /\ blob[1].bytes
              = blob[1].encoded
                    \o [i \in 1..calcPadding(Len(blob[1].encoded), blob[1].unit) |-> PaddingChar]
        /\ Len(blob[1].bytes) % blob[1].unit = 0

\* The call of buildGltfFromBaseMesh (from 0) that packs instance i of mesh k.
InstanceCall(k, i) == Len(BaseMeshesBuilt(k - 1)) + i

\* The glTF meshes a call created and the glTF nodes that refer to a mesh, as
\* positions (from 1) in the document's lists.
MeshesOfCall(d, c) == { m \in 1..Len(d.Meshes) : d.Meshes[m].call = c }
NodesOfMesh(d, m) == { x \in 1..Len(d.Nodes) : d.Nodes[x].Mesh = m - 1 }

TransformsOf(instance) == IF instance.Transfors = Nil THEN <<>> ELSE instance.Transfors[1]

NodeCarries(node, transform) ==
    /\ node.Translation = Decompose(transform).Translation
    /\ node.Rotation = Decompose(transform).Rotation
    /\ node.Scale = Decompose(transform).Scale

\* What C19 says of one instance, packed by call c.
InstancePlaced(d, instance, c) ==
    /\ Cardinality(MeshesOfCall(d, c)) = Len(instance.Mesh.Nodes)
    /\ Cardinality(UNION { NodesOfMesh(d, m) : m \in MeshesOfCall(d, c) })
          = Len(instance.Mesh.Nodes) * Len(TransformsOf(instance))
    /\ \A m \in MeshesOfCall(d, c) :
          /\ \E q \in 1..Len(instance.Mesh.Nodes) : d.Meshes[m].node = instance.Mesh.Nodes[q]
          /\ Cardinality(NodesOfMesh(d, m)) = Len(TransformsOf(instance))
          /\ \A x \in NodesOfMesh(d, m) :
                /\ \E s \in 1..Len(d.SceneNodes) : d.SceneNodes[s] = x - 1
                /\ \E t \in 1..Len(TransformsOf(instance)) :
                      NodeCarries(d.Nodes[x], TransformsOf(instance)[t])
          /\ \A t \in 1..Len(TransformsOf(instance)) :
                \E x \in NodesOfMesh(d, m) :
                    NodeCarries(d.Nodes[x], TransformsOf(instance)[t])

\* C19: an instance with k transforms over a BaseMesh of n nodes adds n glTF
\* meshes and n x k glTF nodes, each listed in scene 0, referring to the mesh of
\* its node and carrying the translation, rotation and scale of its transform.
C19_InstanceNodesPerTransform ==
    doc # Nil =>
        \A k \in 1..built :
            \A i \in 1..Len(meshes[k].Instances) :
                InstancePlaced(doc[1], meshes[k].Instances[i], InstanceCall(k, i))

EdgesOf(group) == Flatten([e \in 1..Len(group.Edges) |-> Uint32sBytes(group.Edges[e])])

\* The calls of buildGltfFromBaseMesh made for a mesh's own BaseMesh.
OwnCalls == { Len(BaseMeshesBuilt(k - 1)) : k \in 1..built }

\* The buffer views and accessors a glTF mesh may have: two views and one
\* accessor per group plus one for an outline; for a triangle mesh also one view
\* and one accessor for the texcoords and for the normals it has.
ViewsOf(gm) ==
    IF gm.outline THEN 2
    ELSE 2 + (IF Len(gm.node.TexCoords) > 0 THEN 1 ELSE 0)
           + (IF Len(gm.node.Normals) > 0 THEN 1 ELSE 0)

AccessorsOf(gm) ==
    IF gm.outline THEN Len(gm.node.EdgeGroup) + 1
    ELSE Len(gm.node.FaceGroup) + 1 + (IF Len(gm.node.TexCoords) > 0 THEN 1 ELSE 0)
           + (IF Len(gm.node.Normals) > 0 THEN 1 ELSE 0)

\* glTF mesh gm holds its node as an outline: an edge-index view of 8 bytes per
\* edge, then the positions; one line-strip primitive per edge group with
\* POSITION as its only attribute, whose index accessor starts 8 bytes per edge
\* of the groups before, counts 2 indices per edge and selects the group's edges.
OutlinePacked(d, gm) ==
    /\ Len(gm.Primitives) = Len(gm.node.EdgeGroup)
    /\ \A i \in 1..Len(gm.Primitives) :
          /\ gm.Primitives[i].Mode = "LINE_STRIP"
          /\ DOMAIN gm.Primitives[i].Attributes = {"POSITION"}
          /\ With([acc \in {d.Accessors[gm.Primitives[i].Indices + 1]} |->
                /\ acc.ByteOffset
                      = 8 * Len(Flatten([g \in 1..(i - 1) |-> gm.node.EdgeGroup[g].Edges]))
                /\ acc.Count = 2 * Len(gm.node.EdgeGroup[i].Edges)
                /\ AccessorBytes(d, acc, 4) = EdgesOf(gm.node.EdgeGroup[i])
                /\ d.BufferViews[acc.BufferView + 1].written = EdgeIndexBytes(gm.node)
                /\ d.BufferViews[acc.BufferView + 1].ByteLength
                      = 8 * Len(Flatten([g \in 1..Len(gm.node.EdgeGroup) |->
                                            gm.node.EdgeGroup[g].Edges]))
                /\ d.Accessors[gm.Primitives[i].Attributes["POSITION"] + 1].BufferView
                      = acc.BufferView + 1
                /\ d.BufferViews[acc.BufferView + 2].written = FloatsBytes(gm.node.Vertices)])

\* No buffer view and no accessor beyond those the meshes and images account for.
NothingExtra(d) ==
    /\ Len(d.BufferViews)
          = Len(d.Images) + Len(Flatten([m \in 1..Len(d.Meshes) |-> Zero(ViewsOf(d.Meshes[m]))]))
    /\ Len(d.Accessors)
          = Len(Flatten([m \in 1..Len(d.Meshes) |-> Zero(AccessorsOf(d.Meshes[m]))]))

\* C20 as stated: in outline export every MeshNode with edge groups is held as
\* an outline.
C20_EveryEdgedNodeIsOutline ==
    (doc # Nil /\ outline) =>
        /\ NothingExtra(doc[1])
        /\ \A m \in 1..Len(doc[1].Meshes) :
              Len(doc[1].Meshes[m].node.EdgeGroup) > 0 =>
                  /\ doc[1].Meshes[m].outline
                  /\ OutlinePacked(doc[1], doc[1].Meshes[m])

\* C20, amended: in outline export the nodes with edge groups of a mesh's own
\* BaseMesh, and only they, are held as outlines (edge-index region of 8 bytes
\* per edge, then positions only; per edge group a line-strip primitive whose
\* index accessor has byte offset 8 x edges before and count 2 x edges); the
\* nodes of an instance's BaseMesh are held as triangles.
C20_OwnEdgedNodesAreOutlines ==
    doc # Nil =>
        /\ NothingExtra(doc[1])
        /\ \A m \in 1..Len(doc[1].Meshes) :
              /\ doc[1].Meshes[m].outline
                    = (/\ outline
                       /\ doc[1].Meshes[m].call \in OwnCalls
                       /\ Len(doc[1].Meshes[m].node.EdgeGroup) > 0)
              /\ doc[1].Meshes[m].outline => OutlinePacked(doc[1], doc[1].Meshes[m])

\* A document with an outline of two edge groups, the second starting 16 bytes
\* into the edge indices, from a node that has texcoords and normals.
C20_Witness ==
    /\ pc = "built"
    /\ outline
    /\ \E m \in 1..Len(doc[1].Meshes) :
          /\ m >= 2
          /\ doc[1].Meshes[m].outline
          /\ Len(doc[1].Meshes[m].node.TexCoords) > 0
          /\ Len(doc[1].Meshes[m].node.Normals) > 0
          /\ Len(doc[1].Meshes[m].Primitives) = 2
          /\ doc[1].Accessors[doc[1].Meshes[m].Primitives[2].Indices + 1].ByteOffset = 16

\* How often the specular-glossiness extension is listed in ExtensionsUsed.
SpecularUses(d) ==
    Cardinality({ i \in 1..Len(d.ExtensionsUsed) : d.ExtensionsUsed[i] = SpecularExtension })

\* C21: after any number of successful BuildGltf calls the specular-glossiness
\* extension is listed exactly once when a Lambert or Phong material was
\* converted, and not at all when none was.
C21_SpecularExtensionListedOnce ==
    doc # Nil =>
        SpecularUses(doc[1])
            = (IF \E k \in 1..Len(doc[1].Materials) : doc[1].Materials[k].Specular
               THEN 1 ELSE 0)

\* A finished document into which two different calls converted a Lambert or
\* Phong material, and one built without any.
C21_Witness ==
    /\ pc = "built"
    /\ \E j, k \in 1..Len(doc[1].Materials) :
          /\ doc[1].Materials[j].Specular
          /\ doc[1].Materials[k].Specular
          /\ doc[1].Materials[j].from.call # doc[1].Materials[k].from.call
    /\ SpecularUses(doc[1]) = 1

C21_WitnessNone ==
    /\ pc = "built"
    /\ Len(doc[1].Materials) >= 2
    /\ SpecularUses(doc[1]) = 0

(***************************************************************************)
(* Claims about calcPadding (checked under PadSpec)                        *)
(***************************************************************************)
\* What C22 says of padding r for offset o and unit u.
PadsToNextMultiple(o, u, r) ==
    /\ r = (u - (o % u)) % u
    /\ r \in 0..(u - 1)
    /\ (r = 0) = (o % u = 0)
    /\ (o + r) % u = 0
    /\ \A k \in o..(o + r - 1) : k % u # 0

\* C22: calcPadding(offset, unit) is (unit - offset mod unit) mod unit: it lies
\* in 0..unit-1, is 0 exactly for a multiple of unit, and offset plus it is the
\* smallest multiple of unit not below offset.
C22_PaddingReachesNextMultiple ==
    pc = "padded" =>
        PadsToNextMultiple(padCall[1].offset, padCall[1].unit, padCall[1].padding[1])

\* The cases of TestCalcPadding among the calls: (7, 8) gives 1, (8, 8) gives 0,
\* (5, 4) gives 3.
C22_Witness ==
    /\ pc = "padded"
    /\ padCall[1].offset = 7 /\ padCall[1].unit = 8 /\ padCall[1].padding = Some(1)

C22_WitnessAligned ==
    /\ pc = "padded"
    /\ padCall[1].offset = 8 /\ padCall[1].unit = 8 /\ padCall[1].padding = Some(0)

(***************************************************************************)
(* Further claims about the Mesh codec                                     *)
(***************************************************************************)
\* C23: at every version MeshUnMarshal reads the fields with the presence and
\* the width MeshMarshal wrote them with, so it gives back a Mesh and stands at
\* the end of the stream when it returns: no byte written is left unread.
C23_DecoderConsumesWhatWasWritten ==
    (pc = "decoded" /\ mesh # Nil /\ ~tampered) =>
        /\ result.st = "mesh"
        /\ result.p = Len(stream)

(***************************************************************************)
(* Further claims about the glTF builder (checked under GltfSpec)          *)
(***************************************************************************)
\* Attribute name of a primitive of glTF mesh m (from 1) leads to an accessor
\* made for that mesh, of element type type, over a buffer view made for that
\* mesh whose bytes are those of values.
AttributeHolds(d, m, prim, name, type, values) ==
    /\ name \in DOMAIN prim.Attributes
    /\ prim.Attributes[name] < Len(d.Accessors)
    /\ With([acc \in {d.Accessors[prim.Attributes[name] + 1]} |->
          /\ acc.mesh = m - 1
          /\ acc.Type = type
          /\ acc.ComponentType = "FLOAT"
          /\ acc.Count = Len(values)
          /\ acc.BufferView < Len(d.BufferViews)
          /\ d.BufferViews[acc.BufferView + 1].mesh = m - 1
          /\ d.BufferViews[acc.BufferView + 1].written = FloatsBytes(values)
          /\ ViewBytes(d, d.BufferViews[acc.BufferView + 1]) = FloatsBytes(values)])

\* C24: the POSITION, TEXCOORD_0 and NORMAL attributes of every triangle
\* primitive lead to accessors made for the primitive's own node, of type vec3,
\* vec2 and vec3, over the buffer views that hold that node's positions,
\* texcoords and normals; an attribute is there exactly when the node has the data.
C24_AttributesLeadToOwnData ==
    doc # Nil =>
        \A m \in 1..Len(doc[1].Meshes) :
            ~doc[1].Meshes[m].outline =>
                \A p \in 1..Len(doc[1].Meshes[m].Primitives) :
                    /\ AttributeHolds(doc[1], m, doc[1].Meshes[m].Primitives[p],
                                      "POSITION", "VEC3", doc[1].Meshes[m].node.Vertices)
                    /\ IF Len(doc[1].Meshes[m].node.TexCoords) > 0
                       THEN AttributeHolds(doc[1], m, doc[1].Meshes[m].Primitives[p],
                                           "TEXCOORD_0", "VEC2",
                                           doc[1].Meshes[m].node.TexCoords)
                       ELSE "TEXCOORD_0" \notin DOMAIN doc[1].Meshes[m].Primitives[p].Attributes
                    /\ IF Len(doc[1].Meshes[m].node.Normals) > 0
                       THEN AttributeHolds(doc[1], m, doc[1].Meshes[m].Primitives[p],
                                           "NORMAL", "VEC3", doc[1].Meshes[m].node.Normals)
                       ELSE "NORMAL" \notin DOMAIN doc[1].Meshes[m].Primitives[p].Attributes

\* A finished document of two meshes that mixes, in this order or another, a
\* triangle mesh with texcoords and normals, one with texcoords only, one with
\* neither, an outline and an embedded texture.
C24_Witness ==
    /\ pc = "built"
    /\ built = 2
    /\ Len(doc[1].Images) > 0
    /\ \E a, b, c, o \in 1..Len(doc[1].Meshes) :
          /\ doc[1].Meshes[o].outline
          /\ ~doc[1].Meshes[a].outline /\ ~doc[1].Meshes[b].outline /\ ~doc[1].Meshes[c].outline
          /\ Len(doc[1].Meshes[a].node.TexCoords) > 0 /\ Len(doc[1].Meshes[a].node.Normals) > 0
          /\ Len(doc[1].Meshes[b].node.TexCoords) > 0 /\ Len(doc[1].Meshes[b].node.Normals) = 0
          /\ Len(doc[1].Meshes[c].node.TexCoords) = 0
          /\ Len(doc[1].Meshes[c].Primitives) > 0
          /\ a > b

(***************************************************************************)
(* ResortSpec: MeshMarshal, MeshUnMarshal, then ResortVtVn on every        *)
(* decoded node                                                            *)
(***************************************************************************)
Vec3_001 == Zero(8) \o F32_1                  \* vec3.T{0, 0, 1}

\* The three uint32 of an index triple.
TripleAt(t, k) == Uint32Of(SubSeq(t, 4 * k - 3, 4 * k))

\* The faces of every group of n, in the order the two loops visit them.
FacesInOrder(n) == Flatten([g \in 1..Len(n.FaceGroup) |-> n.FaceGroup[g].Faces])

\* What ResortVtVn appends to vns for one face:
\* `if f.Normal != nil { n.Normals[(*f.Normal)[k]] } else { vec3.T{0, 0, 1} }`.
ResortNormals(n, f) ==
    IF f.Normal # Nil
    THEN [k \in 1..3 |-> n.Normals[TripleAt(f.Normal[1], k) + 1]]
    ELSE <<Vec3_001, Vec3_001, Vec3_001>>

\* The same for vts: `if f.Uv != nil { n.TexCoords[(*f.Uv)[k]] } else { vec2.T{0, 0} }`.
ResortTexCoords(n, f) ==
    IF f.Uv # Nil
    THEN [k \in 1..3 |-> n.TexCoords[TripleAt(f.Uv[1], k) + 1]]
    ELSE <<Zero(8), Zero(8), Zero(8)>>

\* `vs = append(vs, n.Vertices[int(f.Vertex[k])])`
ResortVertices(n, f) == [k \in 1..3 |-> n.Vertices[TripleAt(f.Vertex, k) + 1]]

\* The number of faces in the groups before group g.
FacesBefore(n, g) == Len(Flatten([h \in 1..(g - 1) |-> n.FaceGroup[h].Faces]))

\* `f.Vertex = [3]uint32{idx, idx + 1, idx + 2}; idx += 3`, q faces having
\* been visited before f.
Renumbered(f, q) ==
    [f EXCEPT !.Vertex = LE32(3 * q) \o LE32(3 * q + 1) \o LE32(3 * q + 2)]

ResortVtVn(n) ==
    With([fs \in {FacesInOrder(n)} |->
        [n EXCEPT
            !.Vertices = Flatten([q \in 1..Len(fs) |-> ResortVertices(n, fs[q])]),
            !.Normals = Flatten([q \in 1..Len(fs) |-> ResortNormals(n, fs[q])]),
            !.TexCoords = Flatten([q \in 1..Len(fs) |-> ResortTexCoords(n, fs[q])]),
            !.FaceGroup =
                [g \in 1..Len(n.FaceGroup) |->
                    [n.FaceGroup[g] EXCEPT !.Faces =
                        [i \in 1..Len(n.FaceGroup[g].Faces) |->
                            Renumbered(n.FaceGroup[g].Faces[i],
                                       FacesBefore(n, g) + i - 1)]]]]])

Vec3_111 == F32_1 \o F32_1 \o F32_1
Vec2_10 == F32_1 \o Zero(4)

\* Three vertices, each with its own normal and UV, two faces in two groups.
SmoothNode ==
    [Vertices |-> <<Vec3_000, Vec3_100, Vec3_010>>,
     Normals |-> <<Vec3_100, Vec3_010, Vec3_111>>, Colors |-> <<>>,
     TexCoords |-> <<Vec2_11, Vec2_10, Zero(8)>>, Mat |-> Nil,
     FaceGroup |-> << [Batchid |-> Zero(4), Faces |-> <<VertexFace(0, 1, 2)>>],
                      [Batchid |-> LE32(1), Faces |-> <<VertexFace(2, 1, 0)>>] >>,
     EdgeGroup |-> <<>>, Props |-> Nil]

\* Every normal {0, 0, 1} and every UV {0, 0}.
FlatNode ==
    [Vertices |-> <<Vec3_000, Vec3_100, Vec3_010>>,
     Normals |-> <<Vec3_001, Vec3_001, Vec3_001>>, Colors |-> <<>>,
     TexCoords |-> <<Zero(8), Zero(8), Zero(8)>>, Mat |-> Nil,
     FaceGroup |-> << [Batchid |-> Zero(4), Faces |-> <<VertexFace(0, 2, 1)>>] >>,
     EdgeGroup |-> <<>>, Props |-> Nil]

ResortNodeLists ==
    { <<TriangleNode(Nil)>>, <<FullNode(Nil)>>, <<SmoothNode>>, <<FlatNode>>,
      <<SmoothNode, FlatNode>>, <<FullNode(Nil), TriangleNode(Nil)>>,
      <<FlatNode, SmoothNode, TriangleNode(Nil)>> }

ResortInputs ==
    { [Version |-> v, Code |-> Code_12345, Materials |-> ms, Nodes |-> ns,
       InstanceNode |-> <<>>, Props |-> Nil] :
        v \in Versions, ms \in {<<>>, <<BaseMtl>>}, ns \in ResortNodeLists }

ResortInit ==
    /\ mesh \in { Some(m) : m \in ResortInputs }
    /\ properties = Nil
    /\ stream = <<>>
    /\ result = NoMesh
    /\ tampered = FALSE
    /\ pc = "init"
    /\ GltfIdle

\* `for _, nd := range ms.Nodes { nd.ResortVtVn(ms) }` on the decoded Mesh.
ResortAll ==
    /\ pc = "decoded"
    /\ result.st = "mesh"
    /\ resorted' = Some([i \in 1..Len(result.ms[1].Nodes) |->
                            ResortVtVn(result.ms[1].Nodes[i])])
    /\ pc' = "resorted"
    /\ UNCHANGED cvars
    /\ UNCHANGED <<meshes, outline, doc, built, blob, padCall, failedDoc>>

ResortNext == Marshal \/ UnMarshal \/ ResortAll

ResortSpec == ResortInit /\ [][ResortNext]_vars

(***************************************************************************)
(* Claims about ResortVtVn (checked under ResortSpec)                      *)
(***************************************************************************)
\* The corners of a node, one per entry of its face index list, as the index
\* of the vertex each refers to.
CornerVertex(n) ==
    With([fs \in {FacesInOrder(n)} |->
        Flatten([q \in 1..Len(fs) |-> [k \in 1..3 |-> TripleAt(fs[q].Vertex, k)]])])

\* Corner c of node i keeps, after ResortVtVn, the normal and the UV the
\* written node stored at the corner's vertex index.
CornerKept(i, c) ==
    With([orig \in {mesh[1].Nodes[i]} |->
    With([v \in {CornerVertex(orig)[c]} |->
        /\ v < Len(orig.Normals) => resorted[1][i].Normals[c] = orig.Normals[v + 1]
        /\ v < Len(orig.TexCoords) => resorted[1][i].TexCoords[c] = orig.TexCoords[v + 1]])])

\* C25: a node decoded from a stream has faces without normal or UV index
\* triples; ResortVtVn on it falls back to the vertex index, so that every
\* corner keeps the normal and UV stored for its vertex.
C25_ResortKeepsNormalsAndUvs ==
    (pc = "resorted") =>
        \A i \in 1..Len(mesh[1].Nodes) :
            \A c \in 1..Len(CornerVertex(mesh[1].Nodes[i])) : CornerKept(i, c)

\* The positions, which ResortVtVn does look up by vertex index, are kept.
ResortKeepsPositions ==
    (pc = "resorted") =>
        \A i \in 1..Len(mesh[1].Nodes) :
            \A c \in 1..Len(CornerVertex(mesh[1].Nodes[i])) :
                resorted[1][i].Vertices[c] =
                    mesh[1].Nodes[i].Vertices[CornerVertex(mesh[1].Nodes[i])[c] + 1]

(***************************************************************************)
(* Further claims about the instance Properties array (TamperSpec)         *)
(***************************************************************************)
\* Entry j of written instance i is where it was after the round trip.
EntryKept(i, j) ==
    /\ result.st = "mesh"
    /\ result.insts[i] # Nil
    /\ j <= Len(result.insts[i][1].Props)
    /\ result.insts[i][1].Props[j] = mesh[1].InstanceNode[i][1].Props[j]

\* C26: the Properties-array length MeshInstanceNodeMarshal declares at V5 is
\* at least len(Props), so that every non-empty entry, also one at an index
\* from max(len(Transfors), len(Features)) on, is written and decodes at the
\* same index.
C26_EveryPropsEntryWritten ==
    (RoundTrip /\ mesh[1].Version = V5) =>
        \A i \in 1..Len(mesh[1].InstanceNode) :
            /\ result.st = "mesh"
            /\ result.decl[i] >= Len(mesh[1].InstanceNode[i][1].Props)
            /\ \A j \in 1..Len(mesh[1].InstanceNode[i][1].Props) :
                  HasEntries(mesh[1].InstanceNode[i][1].Props[j]) => EntryKept(i, j)

\* What does hold: the entries below max(len(Transfors), len(Features)) are
\* written and come back where they were.
EntriesBelowExpectedLenKept ==
    (RoundTrip /\ mesh[1].Version = V5) =>
        \A i \in 1..Len(mesh[1].InstanceNode) :
            With([inst \in {mesh[1].InstanceNode[i][1]} |->
                \A j \in 1..Len(inst.Props) :
                    (HasEntries(inst.Props[j])
                        /\ j <= Max(Len(inst.Transfors), Len(inst.Features)))
                    => EntryKept(i, j)])

\* The buffer views some accessor reads uint32 indices or float32 data from.
DataViews(d) == { d.Accessors[a].BufferView + 1 : a \in 1..Len(d.Accessors) }

\* C27: every buffer view that holds uint32 indices or float32 data starts at
\* a byte offset that is a multiple of 4, also when it follows an embedded
\* PNG of any length.
C27_DataViewsAlignedTo4 ==
    doc # Nil =>
        \A v \in DataViews(doc[1]) : doc[1].BufferViews[v].ByteOffset % 4 = 0

\* What does hold: every data view's own length is a multiple of 4, so that
\* only the length of an embedded PNG can move a later view off a multiple of 4.
DataViewLengthsAlignedTo4 ==
    doc # Nil =>
        \A v \in DataViews(doc[1]) : doc[1].BufferViews[v].ByteLength % 4 = 0

(***************************************************************************)
(* Further claims about altered streams (TamperSpec)                       *)
(***************************************************************************)
\* C28: MeshUnMarshal accepts only a stream that begins with the signature
\* "fwtm"; from any other stream it returns no Mesh.
C28_SignatureRequired ==
    (MeshDecoded /\ result.st = "mesh") =>
        (Len(stream) >= 4 /\ SubSeq(stream, 1, 4) = MESH_SIGNATURE)

\* What does hold: the four bytes are skipped whatever they are, so that an
\* alteration inside them leaves the decoded Mesh as it is without it.
SignatureBytesIgnored ==
    (MeshDecoded /\ Len(stream) >= 4) =>
        \A ord \in Orders :
            SubSeq(stream, 5, Len(stream))
                    = SubSeq(MeshMarshal(mesh[1], ord), 5, Len(MeshMarshal(mesh[1], ord)))
                => result = MeshUnMarshal(MeshMarshal(mesh[1], ord))

(***************************************************************************)
(* Claims about a BuildGltf call that returns an error (GltfSpec)          *)
(***************************************************************************)
\* No primitive of d names a material d does not have.
NoDanglingMaterial(d) ==
    \A m \in 1..Len(d.Meshes) :
        \A p \in 1..Len(d.Meshes[m].Primitives) :
            d.Meshes[m].Primitives[p].Material < Len(d.Materials)

\* No material of d names a texture d does not have.
NoDanglingTexture(d) ==
    \A k \in 1..Len(d.Materials) :
        /\ d.Materials[k].BaseColorTexture # Nil
              => d.Materials[k].BaseColorTexture[1] < Len(d.Textures)
        /\ d.Materials[k].NormalTexture # Nil
              => d.Materials[k].NormalTexture[1] < Len(d.Textures)

\* C29: when BuildGltf returns an error because a texture could not be loaded
\* or encoded, the document it leaves has no primitive whose material index
\* is beyond the materials and no material whose texture index is beyond the
\* textures.
C29_NoDanglingIndexAfterError ==
    failedDoc # Nil
        => (NoDanglingMaterial(failedDoc[1]) /\ NoDanglingTexture(failedDoc[1]))

\* What does hold of the document left behind: its materials name textures it
\* has.
MaterialsOfFailedDocHaveTextures ==
    failedDoc # Nil => NoDanglingTexture(failedDoc[1])

(***************************************************************************)
(* Claims about declared counts (TruncSpec)                                *)
(***************************************************************************)
\* The bytes of the stream that follow the count of the material list.
BytesAfterMtlsCount ==
    IF Len(stream) > MtlsOffset + 4 THEN Len(stream) - (MtlsOffset + 4) ELSE 0

\* C30: decoding is bounded by the stream: the number of elements
\* MeshUnMarshal allocates and walks for a list is at most the number of bytes
\* the stream still holds, never a declared count beyond them; here for the
\* material list, the first one read.
C30_ListLengthBoundedByStream ==
    MeshDecoded => Len(result.mtls) <= BytesAfterMtlsCount

\* What does hold: the list MtlsUnMarshal returns is as long as the count the
\* stream declares (when the count is within CountCap), whatever follows it.
MtlsLengthIsDeclaredCount ==
    (MeshDecoded /\ MtlsOffset + 4 <= Len(stream) /\ FieldAt(MtlsOffset) <= CountCap)
        => Len(result.mtls) = FieldAt(MtlsOffset)

====
